---- MODULE Spec2Model ----
(***************************************************************************)
(* Model of panel-schedules: the panel-region detector                     *)
(* (src/opencv_detector.py, detect_panels_with_opencv), the response       *)
(* parser (src/panel_extractor.py), the CSV writers (src/csv_writer.py),   *)
(* the image loop of process_images (src/main.py, src/app.py), the page    *)
(* loop of extract_from_pdf_page_images, the Excel writer                  *)
(* (src/excel_writer.py) and the output folder over the runs of main() and *)
(* of the web page.  Each part has its own specification; the others'      *)
(* variables stay idle in it.                                              *)
(*                                                                         *)
(* The raster operations of lines 29-43 (grayscale, threshold, dilation,   *)
(* findContours) are library calls; their result, the list of contours,    *)
(* enters the model as the list of the contours' bounding rectangles in    *)
(* contour order.  Everything after that (sort, bounds, filter, padding,   *)
(* crop, naming, debug save, return) is modelled statement by statement.   *)
(*                                                                         *)
(* The four size bounds are Python floats: img_width * (percent / 100).    *)
(* They are modelled as IEEE-754 binary64 values (53-bit significand,      *)
(* round to nearest, ties to even); a float is a record of its significand *)
(* (five limbs of 13 bits, least significant first) and its exponent.      *)
(***************************************************************************)
EXTENDS Integers, Sequences, FiniteSets, TLC

VARIABLES
    image,            \* <<img_width, img_height>> of the page image
    contours,         \* bounding rectangles <<x, y, w, h>> of the contours, in contour order
    cfg,              \* the keyword arguments: the four percents and padding
    page_num,         \* the page_num argument of the current call
    pc,               \* "idle" | "loop" | "done" | "raised"
    bounding_boxes,   \* the sorted list of line 47
    min_width, min_height, max_width, max_height,   \* the floats of lines 54-57
    idx,              \* position of the for loop of line 63 in bounding_boxes
    panels,           \* the list built at line 92
    panel_count,      \* the counter of lines 51 and 84
    saved,            \* file names passed to crop_pil.save during the current call
    debug_dir,        \* the debug directory: file name -> crop stored under it
    calls,            \* number of calls started so far
    returned,         \* what each finished call returned, with its page_num
    other,            \* the locals of a second call running at the same time, or NoCall
    \* PanelExtractor.extract_from_image and detect_panels_in_image (src/panel_extractor.py)
    method,           \* "extract" | "detect": the method that is called
    ex_pc,            \* "idle" | "asked" | "returned"
    doc,              \* the text the model was to send, before any wrapping
    wrap,             \* how the model wrapped it: "bare", "json", "plain", ...
    response,         \* what generate_content gives: a text, no text, or an exception
    requests,         \* number of calls of generate_content
    decoded,          \* the texts handed to json.loads, in order
    result,           \* the value the method returned
    reported,         \* the messages the method printed
    \* the CSV writers (src/csv_writer.py)
    fs,               \* the output files: path -> NoFile or the rows of the file
    writers,          \* the writer instances: kind, output_path and the new-file flag
    writes,           \* number of calls of a write method so far
    last_write,       \* the last call of a write method: instance, panel, raised or not
    written,          \* every call of a write method so far: instance, panel, image name
    \* process_images (src/main.py, src/app.py)
    front,            \* "cli" | "web": whose process_images runs
    image_files,      \* the input images: name, whether it opens, what the model answers
    pi_pc,            \* "idle" | "loop" | "opened" | "done"
    pi_idx,           \* position of the for loop in image_files
    all_panels,       \* the list the Excel output is made from
    visited,          \* names of the images whose loop body was entered, in order
    errors,           \* names of the images whose exception was caught, in order
    \* PanelExtractor.extract_from_pdf_page_images (src/panel_extractor.py)
    use_opencv,       \* the use_opencv argument
    images,           \* the page images: contours, model answer, whether debug writes work
    pdf_pc,           \* "idle" | "loop" | "done" | "raised"
    pdf_idx,          \* position of the for loop of line 180 in images
    detected,         \* detected_panels of each page whose detection returned, in order
    pdf_result,       \* the value the method returned
    \* ExcelWriter (src/excel_writer.py)
    current_row,      \* self.current_row
    sheet,            \* the rows of the sheet that hold a cell, in row order
    xl_pc,            \* "ready" | "raised"
    xl_written,       \* the calls of write_panel that returned: panel and first row
    \* one run of main() (src/main.py) or of the web page (src/app.py)
    program,          \* "main" | "app"
    run_pc,           \* "idle" | "start" | "folder" | "images" | or how the run ended
    choice,           \* "pdf" | "images"
    out_exists,       \* the dated output folder exists
    out_files,        \* the entries under the dated output folder
    out_before,       \* the folder as the run found it
    pdf_wrote,        \* the entries the PDF step of this run made
    image_count,      \* the number of images handed to process_images
    runs              \* runs started

(* the locals of one call of the detector *)
callVars == <<image, contours, page_num, pc, bounding_boxes, min_width, min_height,
              max_width, max_height, idx, panels, panel_count, saved>>

(* the state of the detector apart from the debug directory, and that of the *)
(* response parser                                                           *)
detectorVars == <<callVars, cfg, calls, returned, other>>
extractorVars == <<method, ex_pc, doc, wrap, response, requests, decoded, result, reported>>

writerVars == <<fs, writers, writes, last_write, written>>
batchVars == <<front, image_files, pi_pc, pi_idx, all_panels, visited, errors>>

pagesVars == <<use_opencv, images, pdf_pc, pdf_idx, detected, pdf_result>>

(* the parts modelled after the image loop *)
excelVars == <<current_row, sheet, xl_pc, xl_written>>
runVars ==
    <<program, run_pc, choice, out_exists, out_files, out_before, pdf_wrote, image_count, runs>>
laterVars == <<pagesVars, excelVars, runVars>>

vars == <<detectorVars, debug_dir, extractorVars, writerVars, batchVars, laterVars>>

(* what the detector leaves alone *)
outsideDetector == <<extractorVars, writerVars, batchVars, laterVars>>

(* what the response parser leaves alone, besides the detector *)
outsideExtractor == <<writerVars, batchVars, laterVars>>

(* the response parser has not been called *)
NoValue == [type |-> "none", val |-> "none"]

ExtractorIdle ==
    /\ method = "extract"
    /\ ex_pc = "idle"
    /\ doc = <<>>
    /\ wrap = "bare"
    /\ response = [kind |-> "none", text |-> <<>>]
    /\ requests = 0
    /\ decoded = <<>>
    /\ result = NoValue
    /\ reported = <<>>

(* the output files and the writers: none yet *)
Paths == {"panel_headers.csv", "panel_circuits.csv", "panel_schedules_combined.csv"}
NoFile == [exists |-> FALSE, rows |-> <<>>]
File(rows) == [exists |-> TRUE, rows |-> rows]
NoWrite == [writer |-> 0, raised |-> FALSE]

WritersIdle ==
    /\ fs = [p \in Paths |-> NoFile]
    /\ writers = <<>>
    /\ writes = 0
    /\ last_write = NoWrite
    /\ written = <<>>

(* process_images has not been called *)
BatchIdle ==
    /\ front = "cli"
    /\ image_files = <<>>
    /\ pi_pc = "idle"
    /\ pi_idx = 1
    /\ all_panels = <<>>
    /\ visited = <<>>
    /\ errors = <<>>

(* extract_from_pdf_page_images has not been called *)
PagesIdle ==
    /\ use_opencv = TRUE
    /\ images = <<>>
    /\ pdf_pc = "idle"
    /\ pdf_idx = 1
    /\ detected = <<>>
    /\ pdf_result = NoValue

(* an ExcelWriter as __init__ leaves it, excel_writer.py lines 41-45 *)
ExcelIdle ==
    /\ current_row = 1
    /\ sheet = <<>>
    /\ xl_pc = "ready"
    /\ xl_written = <<>>

(* no run started, no dated folder *)
RunIdle ==
    /\ program = "main"
    /\ run_pc = "idle"
    /\ choice = "images"
    /\ out_exists = FALSE
    /\ out_files = {}
    /\ out_before = [exists |-> FALSE, files |-> {}]
    /\ pdf_wrote = {}
    /\ image_count = 0
    /\ runs = 0

LaterIdle == PagesIdle /\ ExcelIdle /\ RunIdle

OutsideExtractorIdle == WritersIdle /\ BatchIdle /\ LaterIdle
OutsideDetectorIdle == ExtractorIdle /\ OutsideExtractorIdle

-----------------------------------------------------------------------------
(* Bounds of the model *)

MaxContours == 3      \* longest contour list
MaxCalls == 2         \* calls of the detector on the same image and configuration (SpecRepeat)
MaxPairContours == 2  \* longest contour list of a page of two calls running together (SpecPair)
MaxWriters == 2       \* writer instances made (SpecWriters)
MaxWrites == 2        \* calls of a write method (SpecWriters)
MaxImages == 3        \* longest list of input images (SpecBatch)
MaxPages == 2         \* longest list of page images (SpecPages)
MaxSheetPanels == 3   \* calls of ExcelWriter.write_panel (SpecExcel)
MaxRuns == 2          \* runs of the program, one after the other (SpecRun)

(* Program constants *)

RowBucket == 100      \* x[1] // 100 in the sort key
PercentBase == 100    \* percent / 100 in the size bounds

-----------------------------------------------------------------------------
(* Python float arithmetic, as far as lines 54-57 and 69-70 use it.        *)
(* A float is [mant, exp] of value mant * 2^exp with 2^52 <= mant < 2^53;  *)
(* mant is held as NumLimbs limbs of LimbBits bits, least significant      *)
(* first.  Bit strings are sequences of 0 and 1, most significant first.   *)

MantBits == 53        \* significand width of a Python float
LimbBits == 13
NumLimbs == 5
LimbBase == 8192      \* 2^LimbBits

Min(a, b) == IF a < b THEN a ELSE b
Max(a, b) == IF a > b THEN a ELSE b

RECURSIVE IntBits(_)
IntBits(n) == IF n = 0 THEN <<>> ELSE Append(IntBits(n \div 2), n % 2)

(* value of the bit string b[lo..hi] *)
RECURSIVE BitsVal(_, _, _)
BitsVal(b, lo, hi) == IF hi < lo THEN 0 ELSE 2 * BitsVal(b, lo, hi - 1) + b[hi]

RECURSIVE Pow2(_)
Pow2(k) == IF k = 0 THEN 1 ELSE 2 * Pow2(k - 1)

(* 2^k mod d, by squaring *)
RECURSIVE Pow2Mod(_, _)
Pow2Mod(k, d) ==
    IF k = 0 THEN 1 % d
    ELSE LET h == Pow2Mod(k \div 2, d)
         IN  (((h * h) % d) * (IF k % 2 = 1 THEN 2 ELSE 1)) % d

(* limb j (0 the least significant) of a bit string, and the limbs of a   *)
(* string of MantBits bits                                                 *)
Limb(bits, j) ==
    BitsVal(bits, Max(1, Len(bits) - (j + 1) * LimbBits + 1), Len(bits) - j * LimbBits)

Pack(bits) == [j \in 1..NumLimbs |-> Limb(bits, j - 1)]

(* the len bits of the number held in limbs, most significant first *)
LimbsToBits(limbs, len) ==
    [i \in 1..len |->
        (limbs[((len - i) \div LimbBits) + 1] \div Pow2((len - i) % LimbBits)) % 2]

(* b + 1 for a bit string b that is not all ones *)
LastZero(b) == CHOOSE k \in 1..Len(b) : b[k] = 0 /\ \A i \in (k + 1)..Len(b) : b[i] = 1

SetFrom(b, j) == [i \in 1..Len(b) |-> IF i < j THEN b[i] ELSE IF i = j THEN 1 ELSE 0]

IncBits(b) == SetFrom(b, LastZero(b))

(* Round a bit string (first bit 1, last bit of weight 2^e, sticky: some    *)
(* lower bit is non-zero) to a float: round to nearest, ties to even.       *)
RoundUp(kept, e) ==
    IF \A i \in 1..MantBits : kept[i] = 1
    THEN [mant |-> Pack([i \in 1..MantBits |-> IF i = 1 THEN 1 ELSE 0]), exp |-> e + 1]
    ELSE [mant |-> Pack(IncBits(kept)), exp |-> e]

RoundNearestEven(bits, e, sticky) ==
    IF Len(bits) <= MantBits
    THEN [mant |-> Pack([i \in 1..MantBits |-> IF i <= Len(bits) THEN bits[i] ELSE 0]),
          exp  |-> e - (MantBits - Len(bits))]
    ELSE IF bits[MantBits + 1] = 1 /\
            (sticky \/ bits[MantBits] = 1 \/ \E i \in (MantBits + 2)..Len(bits) : bits[i] = 1)
         THEN RoundUp(SubSeq(bits, 1, MantBits), e + (Len(bits) - MantBits))
         ELSE [mant |-> Pack(SubSeq(bits, 1, MantBits)), exp |-> e + (Len(bits) - MantBits)]

(* k-th bit after the binary point of r / d (0 <= r < d), and the          *)
(* remainder left after k bits                                             *)
FracRem(r, d, k) == (r * Pow2Mod(k, d)) % d
FracBit(r, d, k) == IF 2 * FracRem(r, d, k - 1) >= d THEN 1 ELSE 0

(* position after the binary point of the first 1 bit of r / d, 0 < r < d *)
FirstFracBit(r, d) ==
    CHOOSE k \in 1..Len(IntBits(d)) :
        FracBit(r, d, k) = 1 /\ \A j \in 1..(k - 1) : FracBit(r, d, j) = 0

(* the first MantBits + 1 significant bits of ib.(r / d), rounded: ib are  *)
(* the bits before the binary point, nfrac bits are taken after it         *)
RoundQuotient(ib, r, d, nfrac) ==
    RoundNearestEven([i \in 1..(MantBits + 1) |->
                         IF i <= Len(ib) THEN ib[i]
                         ELSE FracBit(r, d, nfrac - (MantBits + 1) + i)],
                     -nfrac, FracRem(r, d, nfrac) # 0)

(* p / d for integers p > 0, d > 0 (d < 2^15): Python's int / int is the   *)
(* correctly rounded quotient                                              *)
TrueDiv(p, d) ==
    IF p \div d > 0
    THEN RoundQuotient(IntBits(p \div d), p % d, d, MantBits + 1 - Len(IntBits(p \div d)))
    ELSE RoundQuotient(<<>>, p, d, FirstFracBit(p, d) + MantBits)

(* limbs j.. of mant * n + carry * LimbBase^(j-1), for 0 < n < 2^17 *)
RECURSIVE MulLimbs(_, _, _, _)
MulLimbs(mant, n, j, carry) ==
    IF j > NumLimbs THEN <<carry>>
    ELSE <<(mant[j] * n + carry) % LimbBase>>
         \o MulLimbs(mant, n, j + 1, (mant[j] * n + carry) \div LimbBase)

TopLimb(limbs) ==
    CHOOSE j \in 1..Len(limbs) : limbs[j] > 0 /\ \A i \in (j + 1)..Len(limbs) : limbs[i] = 0

BitLength(limbs, top) == (top - 1) * LimbBits + Len(IntBits(limbs[top]))

ProductBits(limbs) == LimbsToBits(limbs, BitLength(limbs, TopLimb(limbs)))

(* n * f for an integer n > 0 and a float f: the exact product, rounded *)
FloatMul(n, f) == RoundNearestEven(ProductBits(MulLimbs(f.mant, n, 1, 0)), f.exp, FALSE)

(* floor and "has a fraction" of a float 0 < f < 2^26: mant shifted right *)
(* by -exp bits, that is by skip limbs and shift bits                      *)
RECURSIVE ShiftedSum(_, _, _, _)
ShiftedSum(mant, j, skip, shift) ==   \* limbs j.. of mant, over 2^(skip * LimbBits + shift)
    IF j > NumLimbs THEN 0
    ELSE (IF j = skip + 1 THEN mant[j] \div Pow2(shift)
          ELSE mant[j] * Pow2((j - 1 - skip) * LimbBits - shift))
         + ShiftedSum(mant, j + 1, skip, shift)

FloatFloor(f) == ShiftedSum(f.mant, ((-f.exp) \div LimbBits) + 1,
                            (-f.exp) \div LimbBits, (-f.exp) % LimbBits)

FloatHasFrac(f) ==
    \/ (-f.exp) \div LimbBits >= NumLimbs
    \/ f.mant[((-f.exp) \div LimbBits) + 1] % Pow2((-f.exp) % LimbBits) # 0
    \/ \E j \in 1..((-f.exp) \div LimbBits) : f.mant[j] # 0

(* int > float and int < float: Python compares them exactly *)
IntGtFloat(n, f) == n > FloatFloor(f)
IntLtFloat(n, f) == n < FloatFloor(f) \/ (n = FloatFloor(f) /\ FloatHasFrac(f))

(* img_dimension * (percent / 100), lines 54-57 *)
SizeBound(dim, percent) == FloatMul(dim, TrueDiv(percent, PercentBase))

-----
(* Inputs: page images, the bounding rectangles cv2.boundingRect can       *)
(* report on them (inside the image, w >= 1, h >= 1), keyword arguments    *)

BigImage == <<1000, 1000>>
SmallImage == <<400, 300>>
ImageSizes == {BigImage, SmallImage}

BoxR == <<100, 100, 300, 300>>       \* 30% x 30% of the big page
BoxWide == <<10, 400, 980, 300>>     \* 98% of the big page's width
BoxEdge == <<0, 690, 310, 310>>      \* on the left and bottom edges of the big page
BoxA == <<10, 10, 50, 50>>
BoxB == <<200, 15, 50, 50>>
BoxC == <<5, 150, 50, 50>>
BoxCorner == <<172, 100, 228, 200>>  \* 57% of the small page's width, in its corner

BoxesOf(img) ==
    IF img = BigImage THEN {BoxR, BoxWide, BoxEdge} ELSE {BoxA, BoxB, BoxC, BoxCorner}

InImage(b, img) ==
    b[1] >= 0 /\ b[2] >= 0 /\ b[3] >= 1 /\ b[4] >= 1 /\
    b[1] + b[3] <= img[1] /\ b[2] + b[4] <= img[2]

ContourLists(img) ==
    UNION { [1..n -> {b \in BoxesOf(img) : InImage(b, img)}] : n \in 0..MaxContours }

Configs ==
    [min_width_percent : {10, 57}, max_width_percent : {10, 57, 95},
     min_height_percent : {10, 95}, max_height_percent : {95},
     padding : {-450, 0, 20}]

DefaultConfig ==   \* the defaults of line 12
    [min_width_percent |-> 10, min_height_percent |-> 10,
     max_width_percent |-> 95, max_height_percent |-> 95, padding |-> 20]

PageNums == {1, 12}

(* SizeBound over the dimensions and percents of the inputs, tabulated once *)
Dimensions == {img[1] : img \in ImageSizes} \cup {img[2] : img \in ImageSizes}
Percents ==
    {c.min_width_percent : c \in Configs} \cup {c.max_width_percent : c \in Configs} \cup
    {c.min_height_percent : c \in Configs} \cup {c.max_height_percent : c \in Configs}
SizeBounds == [d \in Dimensions, p \in Percents |-> SizeBound(d, p)]

-----------------------------------------------------------------------------
(* Line 47: bounding_boxes.sort(key=lambda x: (x[1] // 100, x[0])).        *)
(* list.sort is stable: boxes with equal keys keep their contour order.    *)

(* faulty variant: the key without the row bucket *)
SortKeyNoBucket(b) == <<b[2], b[1]>>

SortKey(b) == <<b[2] \div RowBucket, b[1]>>

KeyLess(k1, k2) == k1[1] < k2[1] \/ (k1[1] = k2[1] /\ k1[2] < k2[2])

(* insert b behind every element whose key is not greater than b's *)
RECURSIVE Insert(_, _)
Insert(sorted, b) ==
    IF sorted = <<>> THEN <<b>>
    ELSE IF KeyLess(SortKey(b), SortKey(sorted[Len(sorted)]))
         THEN Append(Insert(SubSeq(sorted, 1, Len(sorted) - 1), b), sorted[Len(sorted)])
         ELSE Append(sorted, b)

RECURSIVE SortBoxes(_)
SortBoxes(boxes) ==
    IF boxes = <<>> THEN <<>>
    ELSE Insert(SortBoxes(SubSeq(boxes, 1, Len(boxes) - 1)), boxes[Len(boxes)])

-----------------------------------------------------------------------------
(* Lines 69-70: the size filter, on the floats of lines 54-57 *)

(* faulty variant: the filter without the upper bound on the width *)
AcceptsNoMaxWidth(b, mnw, mnh, mxw, mxh) ==
    /\ IntGtFloat(b[3], mnw)
    /\ IntGtFloat(b[4], mnh)
    /\ IntLtFloat(b[4], mxh)

Accepts(b, mnw, mnh, mxw, mxh) ==
    /\ IntGtFloat(b[3], mnw)
    /\ IntGtFloat(b[4], mnh)
    /\ IntLtFloat(b[3], mxw)
    /\ IntLtFloat(b[4], mxh)

(* Lines 72-75: the padded rectangle <<x_pad, y_pad, w_pad, h_pad>> *)

(* faulty variant: the padded size is not cut to the image *)
PadRectNoClamp(b, img, padding) ==
    <<Max(0, b[1] - padding), Max(0, b[2] - padding),
      b[3] + (padding * 2), b[4] + (padding * 2)>>

(* faulty variant: the padding is taken off the size *)
PadRectShrinks(b, img, padding) ==
    LET x_pad == Max(0, b[1] - padding)
        y_pad == Max(0, b[2] - padding)
    IN  <<x_pad, y_pad, Min(img[1] - x_pad, b[3] - (padding * 2)),
          Min(img[2] - y_pad, b[4] - (padding * 2))>>

(* faulty variant: the padding is added to the size once, not on both sides *)
PadRectOneSide(b, img, padding) ==
    LET x_pad == Max(0, b[1] - padding)
        y_pad == Max(0, b[2] - padding)
    IN  <<x_pad, y_pad, Min(img[1] - x_pad, b[3] + padding),
          Min(img[2] - y_pad, b[4] + padding)>>

(* faulty variant: the origin moves by the padding, the size stays *)
PadRectKeepsSize(b, img, padding) ==
    LET x_pad == Max(0, b[1] - padding)
        y_pad == Max(0, b[2] - padding)
    IN  <<x_pad, y_pad, Min(img[1] - x_pad, b[3]), Min(img[2] - y_pad, b[4])>>

PadRect(b, img, padding) ==
    LET x_pad == Max(0, b[1] - padding)
        y_pad == Max(0, b[2] - padding)
        w_pad == Min(img[1] - x_pad, b[3] + (padding * 2))
        h_pad == Min(img[2] - y_pad, b[4] + (padding * 2))
    IN  <<x_pad, y_pad, w_pad, h_pad>>

(* Line 78: img_bgr[y_pad:y_pad+h_pad, x_pad:x_pad+w_pad].  A slice bound  *)
(* below zero counts from the end, one beyond the axis is cut to it; the   *)
(* result is the region <<x0, y0, width, height>> of the image.            *)

SliceIndex(i, n) == IF i < 0 THEN Max(i + n, 0) ELSE Min(i, n)

SliceLen(start, stop, n) == Max(0, SliceIndex(stop, n) - SliceIndex(start, n))

Crop(r, img) ==
    <<SliceIndex(r[1], img[1]), SliceIndex(r[2], img[2]),
      SliceLen(r[1], r[1] + r[3], img[1]), SliceLen(r[2], r[2] + r[4], img[2])>>

(* Lines 85 and 88: f"{n:02d}" is str(n), zero-filled on the left to width 2 *)

RECURSIVE Decimal(_)
Decimal(n) ==
    IF n < 0 THEN "-" \o Decimal(-n)
    ELSE IF n < 10 THEN <<"0", "1", "2", "3", "4", "5", "6", "7", "8", "9">>[n + 1]
    ELSE Decimal(n \div 10) \o Decimal(n % 10)

Format02d(n) == IF 0 <= n /\ n < 10 THEN "0" \o Decimal(n) ELSE Decimal(n)

PanelName(count) == "Panel_" \o Format02d(count)

(* faulty variant: the file name without the page number *)
DebugFileNameNoPage(page, count) == "opencv_panel_" \o Format02d(count) \o ".png"

DebugFileName(page, count) ==
    "page_" \o Format02d(page) \o "_opencv_panel_" \o Format02d(count) \o ".png"

-----------------------------------------------------------------------------
(* The detector as a state machine *)

Unset == [mant |-> <<>>, exp |-> 0]   \* a local that is not bound yet

NoCall == [pc |-> "none"]             \* no second call is running

Init ==
    /\ image \in ImageSizes
    /\ contours \in ContourLists(image)
    /\ cfg \in Configs
    /\ page_num = 0
    /\ pc = "idle"
    /\ bounding_boxes = <<>>
    /\ min_width = Unset
    /\ min_height = Unset
    /\ max_width = Unset
    /\ max_height = Unset
    /\ idx = 1
    /\ panels = <<>>
    /\ panel_count = 0
    /\ saved = <<>>
    /\ debug_dir = <<>>
    /\ calls = 0
    /\ returned = <<>>
    /\ other = NoCall
    /\ OutsideDetectorIdle

(* two pages handed to the detector at the same time, with the default options *)
PairContourLists(img) == UNION {[1..n -> BoxesOf(img)] : n \in 0..MaxPairContours}

IdleCall(img, cs) ==
    [image |-> img, contours |-> cs, page_num |-> 0, pc |-> "idle",
     bounding_boxes |-> <<>>, min_width |-> Unset, min_height |-> Unset,
     max_width |-> Unset, max_height |-> Unset, idx |-> 1, panels |-> <<>>,
     panel_count |-> 0, saved |-> <<>>]

InitPair ==
    /\ image = BigImage
    /\ contours \in PairContourLists(BigImage)
    /\ cfg = DefaultConfig
    /\ page_num = 0
    /\ pc = "idle"
    /\ bounding_boxes = <<>>
    /\ min_width = Unset
    /\ min_height = Unset
    /\ max_width = Unset
    /\ max_height = Unset
    /\ idx = 1
    /\ panels = <<>>
    /\ panel_count = 0
    /\ saved = <<>>
    /\ debug_dir = <<>>
    /\ calls = 0
    /\ returned = <<>>
    /\ \E cs \in PairContourLists(SmallImage) : other = IdleCall(SmallImage, cs)
    /\ OutsideDetectorIdle

(* a page whose boxes lie around the border between the first and the     *)
(* second row bucket                                                      *)
BoxLow == <<300, 97, 50, 50>>
RowBoxes == {BoxA, BoxB, BoxLow, BoxCorner}
RowContourLists == UNION {[1..n -> RowBoxes] : n \in 0..MaxContours}

InitRows ==
    /\ image = SmallImage
    /\ contours \in RowContourLists
    /\ cfg \in {c \in Configs : c.padding >= 0 /\ c.min_width_percent = 10}
    /\ page_num = 0
    /\ pc = "idle"
    /\ bounding_boxes = <<>>
    /\ min_width = Unset
    /\ min_height = Unset
    /\ max_width = Unset
    /\ max_height = Unset
    /\ idx = 1
    /\ panels = <<>>
    /\ panel_count = 0
    /\ saved = <<>>
    /\ debug_dir = <<>>
    /\ calls = 0
    /\ returned = <<>>
    /\ other = NoCall
    /\ OutsideDetectorIdle

(* faulty variant: panel_count lives on from the previous call *)
EnterCallKeepsCount ==
    /\ \E pn \in PageNums : page_num' = pn
    /\ calls' = calls + 1
    /\ bounding_boxes' = SortBoxes(contours)
    /\ panels' = <<>>
    /\ min_width' = SizeBounds[image[1], cfg.min_width_percent]
    /\ min_height' = SizeBounds[image[2], cfg.min_height_percent]
    /\ max_width' = SizeBounds[image[1], cfg.max_width_percent]
    /\ max_height' = SizeBounds[image[2], cfg.max_height_percent]
    /\ idx' = 1
    /\ saved' = <<>>
    /\ pc' = "loop"
    /\ UNCHANGED outsideDetector
    /\ UNCHANGED <<other, image, contours, cfg, debug_dir, returned, panel_count>>

(* Lines 12-61: a call, up to the start of the for loop *)
EnterCall ==
    /\ \E pn \in PageNums : page_num' = pn
    /\ calls' = calls + 1
    /\ bounding_boxes' = SortBoxes(contours)
    /\ panels' = <<>>
    /\ panel_count' = 0
    /\ min_width' = SizeBounds[image[1], cfg.min_width_percent]
    /\ min_height' = SizeBounds[image[2], cfg.min_height_percent]
    /\ max_width' = SizeBounds[image[1], cfg.max_width_percent]
    /\ max_height' = SizeBounds[image[2], cfg.max_height_percent]
    /\ idx' = 1
    /\ saved' = <<>>
    /\ pc' = "loop"
    /\ UNCHANGED outsideDetector
    /\ UNCHANGED <<other, image, contours, cfg, debug_dir, returned>>

(* the first call on the page *)
Call == pc = "idle" /\ EnterCall

(* a further call with the same image and keyword arguments *)
CallAgain == pc \in {"done", "raised"} /\ calls < MaxCalls /\ EnterCall

(* a call on a page while a call on another page (another page_num) is running *)
CallPair == pc = "idle" /\ other.pc # "none" /\ EnterCall /\ page_num' # other.page_num

(* the scheduler leaves the running call where it is and resumes the other one: *)
(* the locals of lines 46-92 belong to each call, the debug directory is shared *)
Switch ==
    /\ other.pc # "none"
    /\ other' = [image |-> image, contours |-> contours, page_num |-> page_num, pc |-> pc,
                 bounding_boxes |-> bounding_boxes, min_width |-> min_width,
                 min_height |-> min_height, max_width |-> max_width,
                 max_height |-> max_height, idx |-> idx, panels |-> panels,
                 panel_count |-> panel_count, saved |-> saved]
    /\ image' = other.image
    /\ contours' = other.contours
    /\ page_num' = other.page_num
    /\ pc' = other.pc
    /\ bounding_boxes' = other.bounding_boxes
    /\ min_width' = other.min_width
    /\ min_height' = other.min_height
    /\ max_width' = other.max_width
    /\ max_height' = other.max_height
    /\ idx' = other.idx
    /\ panels' = other.panels
    /\ panel_count' = other.panel_count
    /\ saved' = other.saved
    /\ UNCHANGED <<outsideDetector, cfg, debug_dir, calls, returned>>

InLoop == pc = "loop" /\ idx <= Len(bounding_boxes)

CurrentBox == bounding_boxes[idx]

CurrentAccepted == Accepts(CurrentBox, min_width, min_height, max_width, max_height)

CurrentCrop == Crop(PadRect(CurrentBox, image, cfg.padding), image)

(* faulty variant: a rejected box takes a sequence number *)
RejectTakesNumber ==
    /\ InLoop
    /\ ~CurrentAccepted
    /\ idx' = idx + 1
    /\ panel_count' = panel_count + 1
    /\ UNCHANGED outsideDetector
    /\ UNCHANGED <<other, image, contours, cfg, page_num, pc, bounding_boxes, min_width,
                   min_height, max_width, max_height, panels, saved, debug_dir, calls,
                   returned>>

(* Lines 63-70: one iteration whose box fails the filter *)
Reject ==
    /\ InLoop
    /\ ~CurrentAccepted
    /\ idx' = idx + 1
    /\ UNCHANGED outsideDetector
    /\ UNCHANGED <<other, image, contours, cfg, page_num, pc, bounding_boxes, min_width,
                   min_height, max_width, max_height, panels, panel_count, saved,
                   debug_dir, calls, returned>>

(* faulty variant: the new panel is put in front of the list *)
AcceptPrepends ==
    /\ InLoop
    /\ CurrentAccepted
    /\ CurrentCrop[3] > 0 /\ CurrentCrop[4] > 0
    /\ LET count    == panel_count + 1
           filename == DebugFileName(page_num, count)
           panel    == [name |-> PanelName(count),
                        rect |-> PadRect(CurrentBox, image, cfg.padding),
                        crop |-> CurrentCrop]
       IN  /\ panel_count' = count
           /\ saved' = Append(saved, filename)
           /\ debug_dir' = (filename :> CurrentCrop) @@ debug_dir
           /\ panels' = <<panel>> \o panels
    /\ idx' = idx + 1
    /\ UNCHANGED outsideDetector
    /\ UNCHANGED <<other, image, contours, cfg, page_num, pc, bounding_boxes, min_width,
                   min_height, max_width, max_height, calls, returned>>

(* faulty variant: the region's name carries the page number *)
AcceptNamesByPage ==
    /\ InLoop
    /\ CurrentAccepted
    /\ CurrentCrop[3] > 0 /\ CurrentCrop[4] > 0
    /\ LET count    == panel_count + 1
           filename == DebugFileName(page_num, count)
           panel    == [name |-> PanelName(page_num * 100 + count),
                        rect |-> PadRect(CurrentBox, image, cfg.padding),
                        crop |-> CurrentCrop]
       IN  /\ panel_count' = count
           /\ saved' = Append(saved, filename)
           /\ debug_dir' = (filename :> CurrentCrop) @@ debug_dir
           /\ panels' = Append(panels, panel)
    /\ idx' = idx + 1
    /\ UNCHANGED outsideDetector
    /\ UNCHANGED <<other, image, contours, cfg, page_num, pc, bounding_boxes, min_width,
                   min_height, max_width, max_height, calls, returned>>

(* Lines 63-93: one iteration whose box passes the filter *)
Accept ==
    /\ InLoop
    /\ CurrentAccepted
    /\ CurrentCrop[3] > 0 /\ CurrentCrop[4] > 0
    /\ LET count    == panel_count + 1
           filename == DebugFileName(page_num, count)
           panel    == [name |-> PanelName(count),
                        rect |-> PadRect(CurrentBox, image, cfg.padding),
                        crop |-> CurrentCrop]
       IN  /\ panel_count' = count
           /\ saved' = Append(saved, filename)
           /\ debug_dir' = (filename :> CurrentCrop) @@ debug_dir
           /\ panels' = Append(panels, panel)
    /\ idx' = idx + 1
    /\ UNCHANGED outsideDetector
    /\ UNCHANGED <<other, image, contours, cfg, page_num, pc, bounding_boxes, min_width,
                   min_height, max_width, max_height, calls, returned>>

(* Lines 78-81: the crop is empty and cv2.cvtColor raises cv2.error, which *)
(* leaves the function                                                     *)
CropError ==
    /\ InLoop
    /\ CurrentAccepted
    /\ CurrentCrop[3] = 0 \/ CurrentCrop[4] = 0
    /\ pc' = "raised"
    /\ UNCHANGED outsideDetector
    /\ UNCHANGED <<other, image, contours, cfg, page_num, bounding_boxes, min_width, min_height,
                   max_width, max_height, idx, panels, panel_count, saved, debug_dir,
                   calls, returned>>

(* Line 95: return panels *)
Return ==
    /\ pc = "loop"
    /\ idx > Len(bounding_boxes)
    /\ pc' = "done"
    /\ returned' = Append(returned, [page_num |-> page_num, panels |-> panels,
                                     files |-> saved])
    /\ UNCHANGED outsideDetector
    /\ UNCHANGED <<other, image, contours, cfg, page_num, bounding_boxes, min_width, min_height,
                   max_width, max_height, idx, panels, panel_count, saved, debug_dir,
                   calls>>

Next == Call \/ Reject \/ Accept \/ CropError \/ Return

(* one call of the detector on a page *)
Spec == Init /\ [][Next]_vars

(* Line 90: crop_pil.save raises, for instance because the debug directory *)
(* cannot be written; nothing catches it, the call ends with the exception *)
(* after line 84 has counted the panel                                     *)
SaveFails ==
    /\ InLoop
    /\ CurrentAccepted
    /\ CurrentCrop[3] > 0 /\ CurrentCrop[4] > 0
    /\ panel_count' = panel_count + 1
    /\ saved' = Append(saved, DebugFileName(page_num, panel_count + 1))
    /\ pc' = "raised"
    /\ UNCHANGED outsideDetector
    /\ UNCHANGED <<other, image, contours, cfg, page_num, bounding_boxes, min_width, min_height,
                   max_width, max_height, idx, panels, debug_dir, calls, returned>>

InitSave == Init /\ cfg.padding >= 0

NextSave == Call \/ Reject \/ Accept \/ SaveFails \/ Return

(* one call whose debug writes may fail *)
SpecSave == InitSave /\ [][NextSave]_vars

Last(q) == q[Len(q)]

(* the list a call returns when it runs alone, computed in one piece *)
RECURSIVE RunAlone(_, _, _, _, _)
RunAlone(boxes, k, img, c, acc) ==
    IF k > Len(boxes) THEN acc
    ELSE IF Accepts(boxes[k], SizeBounds[img[1], c.min_width_percent],
                    SizeBounds[img[2], c.min_height_percent],
                    SizeBounds[img[1], c.max_width_percent],
                    SizeBounds[img[2], c.max_height_percent])
         THEN RunAlone(boxes, k + 1, img, c,
                       Append(acc, [name |-> PanelName(Len(acc) + 1),
                                    rect |-> PadRect(boxes[k], img, c.padding),
                                    crop |-> Crop(PadRect(boxes[k], img, c.padding), img)]))
         ELSE RunAlone(boxes, k + 1, img, c, acc)

DetectAlone(img, cs, c) == RunAlone(SortBoxes(cs), 1, img, c, <<>>)

NextRepeat == Call \/ CallAgain \/ Reject \/ Accept \/ CropError \/ Return

(* repeated calls on the same page *)
SpecRepeat == Init /\ [][NextRepeat]_vars

NextPair == CallPair \/ Switch \/ Reject \/ Accept \/ Return

(* two calls on different pages, interleaved *)
SpecPair == InitPair /\ [][NextPair]_vars

NextRows == Call \/ Reject \/ Accept \/ Return

(* one call on a page with boxes on both sides of a row-bucket border *)
SpecRows == InitRows /\ [][NextRows]_vars

-----------------------------------------------------------------------------
(* The response parser of src/panel_extractor.py.                          *)
(*                                                                         *)
(* A text is a sequence of tokens.  The characters the parser looks at     *)
(* (back-quote, the letters of "json", blank, newline, braces, brackets,   *)
(* comma, colon) are one token each; a quoted JSON string, a number and a  *)
(* bare word are one token each, which no test of the parser looks into.   *)

Space == {" ", "\n"}

(* the quoted strings of the texts, each with what line 81 makes of it:    *)
(* "/" and ":" replaced by "-", blank by "_"                               *)
SafeName ==
    [panels |-> "panels", panel_header |-> "panel_header", panel_name |-> "panel_name",
     circuits |-> "circuits", load_description |-> "load_description", bbox |-> "bbox",
     x1 |-> "x1", y1 |-> "y1", x2 |-> "x2", y2 |-> "y2", other |-> "other",
     Lighting |-> "Lighting", bus_amperage |-> "bus_amperage", main_ocpd |-> "main_ocpd",
     voltage |-> "voltage", phase |-> "phase", wire |-> "wire", poles |-> "poles",
     kaic |-> "kaic", enclosure |-> "enclosure", ocp_size |-> "ocp_size",
     feeder |-> "feeder", circuit_number |-> "circuit_number", Pump |-> "Pump",
     MLO |-> "MLO"]
    @@ ("LP-1" :> "LP-1") @@ ("LP 2" :> "LP_2") @@ ("" :> "") @@ ("225A" :> "225A")
    @@ ("60.00A MCB" :> "60.00A_MCB") @@ ("120/208V" :> "120-208V") @@ ("20A" :> "20A")
    @@ ("12.5A" :> "12.5A") @@ ("1" :> "1") @@ ("2,4" :> "2,4")

Quoted(str) == "\"" \o str \o "\""

StringToks == {Quoted(str) : str \in DOMAIN SafeName}

(* the numbers of the texts, with their values *)
NumVal == ("0" :> 0) @@ ("7" :> 7) @@ ("50" :> 50) @@ ("100" :> 100)

NumberToks == DOMAIN NumVal

SetMin(S) == CHOOSE m \in S : \A n \in S : m <= n
SetMax(S) == CHOOSE m \in S : \A n \in S : m >= n

(* str.strip(), str.startswith(), str.endswith(), s[n:], s[:-n], rstrip(',') *)
Strip(t) ==
    LET solid == {i \in DOMAIN t : t[i] \notin Space}
    IN  IF solid = {} THEN <<>> ELSE SubSeq(t, SetMin(solid), SetMax(solid))

StartsWith(t, prefix) == Len(t) >= Len(prefix) /\ SubSeq(t, 1, Len(prefix)) = prefix

EndsWith(t, suffix) ==
    Len(t) >= Len(suffix) /\ SubSeq(t, Len(t) - Len(suffix) + 1, Len(t)) = suffix

Drop(t, n) == SubSeq(t, n + 1, Len(t))

DropLast(t, n) == SubSeq(t, 1, Len(t) - n)

RStripComma(t) ==
    LET solid == {i \in DOMAIN t : t[i] # ","}
    IN  IF solid = {} THEN <<>> ELSE SubSeq(t, 1, SetMax(solid))

BackQuote == "bq"     \* the token of the back-quote character
Fence == <<BackQuote, BackQuote, BackQuote>>
FenceJson == Fence \o <<"j", "s", "o", "n">>

(* faulty variant: the plain fence is tested before the json fence *)
StripFencesPlainFirst(text) ==
    LET a == Strip(text)
        b == IF StartsWith(a, Fence) THEN Drop(a, 3) ELSE a
        c == IF StartsWith(b, FenceJson) THEN Drop(b, 7) ELSE b
        d == IF EndsWith(c, Fence) THEN DropLast(c, 3) ELSE c
    IN  Strip(d)

(* Lines 44-54 and 120-130: the text with the markdown fences removed *)
StripFences(text) ==
    LET a == Strip(text)
        b == IF StartsWith(a, FenceJson) THEN Drop(a, 7) ELSE a
        c == IF StartsWith(b, Fence) THEN Drop(b, 3) ELSE b
        d == IF EndsWith(c, Fence) THEN DropLast(c, 3) ELSE c
    IN  Strip(d)

(* Lines 133-136: a text that ends neither with } nor with ] is closed *)
Repair(text) ==
    IF ~EndsWith(text, <<"}">>) /\ ~EndsWith(text, <<"]">>)
    THEN RStripComma(text) \o <<"]", "}", "}">>
    ELSE text

(* json.loads: a JSON value is [type, val]; an object holds its members    *)
(* as a sequence of <<key, value>>, an array its items, a string, a number *)
(* and a word its token.                                                   *)
JNull == [type |-> "null", val |-> "null"]
JArray(items) == [type |-> "array", val |-> items]
JObject(members) == [type |-> "object", val |-> members]
JString(tok) == [type |-> "string", val |-> tok]

NoParse == [ok |-> FALSE, pos |-> 0, val |-> JNull]
Parsed(v, next) == [ok |-> TRUE, pos |-> next, val |-> v]

SkipSpace(t, i) ==
    LET solid == {k \in i..Len(t) : t[k] \notin Space}
    IN  IF solid = {} THEN Len(t) + 1 ELSE SetMin(solid)

TokenAt(t, i) == IF i \in DOMAIN t THEN t[i] ELSE "<end>"

RECURSIVE ParseValue(_, _)
RECURSIVE ParseItems(_, _, _)
RECURSIVE MoreItems(_, _, _)
RECURSIVE ParseMembers(_, _, _)
RECURSIVE MoreMembers(_, _, _, _)

ParseValue(t, i) ==
    LET tok == TokenAt(t, SkipSpace(t, i))
        at  == SkipSpace(t, i)
    IN  IF tok \in StringToks THEN Parsed(JString(tok), at + 1)
        ELSE IF tok \in NumberToks THEN Parsed([type |-> "number", val |-> tok], at + 1)
        ELSE IF tok \in {"true", "false"} THEN Parsed([type |-> "bool", val |-> tok], at + 1)
        ELSE IF tok = "null" THEN Parsed(JNull, at + 1)
        ELSE IF tok = "[" THEN
            IF TokenAt(t, SkipSpace(t, at + 1)) = "]"
            THEN Parsed(JArray(<<>>), SkipSpace(t, at + 1) + 1)
            ELSE ParseItems(t, at + 1, <<>>)
        ELSE IF tok = "{" THEN
            IF TokenAt(t, SkipSpace(t, at + 1)) = "}"
            THEN Parsed(JObject(<<>>), SkipSpace(t, at + 1) + 1)
            ELSE ParseMembers(t, at + 1, <<>>)
        ELSE NoParse

(* the items of an array, a value being due at i *)
ParseItems(t, i, acc) == MoreItems(t, ParseValue(t, i), acc)

MoreItems(t, v, acc) ==
    IF ~v.ok THEN NoParse
    ELSE LET tok == TokenAt(t, SkipSpace(t, v.pos))
         IN  IF tok = "," THEN ParseItems(t, SkipSpace(t, v.pos) + 1, Append(acc, v.val))
             ELSE IF tok = "]"
                  THEN Parsed(JArray(Append(acc, v.val)), SkipSpace(t, v.pos) + 1)
                  ELSE NoParse

(* the members of an object, a key being due at i *)
ParseMembers(t, i, acc) ==
    LET key == TokenAt(t, SkipSpace(t, i))
        colon == SkipSpace(t, SkipSpace(t, i) + 1)
    IN  IF key \in StringToks /\ TokenAt(t, colon) = ":"
        THEN MoreMembers(t, key, ParseValue(t, colon + 1), acc)
        ELSE NoParse

MoreMembers(t, key, v, acc) ==
    IF ~v.ok THEN NoParse
    ELSE LET tok == TokenAt(t, SkipSpace(t, v.pos))
         IN  IF tok = "," THEN ParseMembers(t, SkipSpace(t, v.pos) + 1,
                                            Append(acc, <<key, v.val>>))
             ELSE IF tok = "}"
                  THEN Parsed(JObject(Append(acc, <<key, v.val>>)), SkipSpace(t, v.pos) + 1)
                  ELSE NoParse

(* json.loads(text): the value, or no value where JSONDecodeError is raised *)
Loads(text) ==
    LET v == ParseValue(text, 1)
    IN  IF v.ok /\ SkipSpace(text, v.pos) > Len(text) THEN v ELSE NoParse

JNumber(tok) == [type |-> "number", val |-> tok]

(* dict.get(key, default) on a JSON object: the last member of that key *)
Get(obj, key, default) ==
    LET at == {i \in DOMAIN obj.val : obj.val[i][1] = key}
    IN  IF at = {} THEN default ELSE obj.val[SetMax(at)][2]

(* bool(v) *)
Truthy(v) ==
    CASE v.type \in {"object", "array"} -> v.val # <<>>
      [] v.type = "string" -> v.val # Quoted("")
      [] v.type = "number" -> NumVal[v.val] # 0
      [] v.type = "bool" -> v.val = "true"
      [] OTHER -> FALSE

EmptyList == JArray(<<>>)

(* the text handed to json.loads: lines 120-136 in extract_from_image,     *)
(* lines 44-54 in detect_panels_in_image                                   *)
Prepared(m, text) == IF m = "extract" THEN Repair(StripFences(text)) ELSE StripFences(text)

(* Lines 143-145: the panel names are collected and joined without an      *)
(* exception when the value is a list of objects whose panel_header (or    *)
(* {}) is an object and whose panel_name (or "Unknown") is a string        *)
NamesJoin(value) ==
    /\ value.type = "array"
    /\ \A k \in DOMAIN value.val :
           /\ value.val[k].type = "object"
           /\ Get(value.val[k], Quoted("panel_header"), JObject(<<>>)).type = "object"
           /\ Get(Get(value.val[k], Quoted("panel_header"), JObject(<<>>)),
                  Quoted("panel_name"), JString(Quoted("Unknown"))).type = "string"

(* Line 67: panel_info.get("panel_name", f"unknown_{idx}"), idx from 0 *)
NameOf(item, k) ==
    Get(item, Quoted("panel_name"), [type |-> "default", val |-> "unknown_" \o Decimal(k - 1)])

(* Line 68 *)
BBoxOf(item) == Get(item, Quoted("bbox"), JObject(<<>>))

Corners(bbox) ==
    <<Get(bbox, Quoted("x1"), JNumber("0")), Get(bbox, Quoted("y1"), JNumber("0")),
      Get(bbox, Quoted("x2"), JNumber("100")), Get(bbox, Quoted("y2"), JNumber("100"))>>

(* Lines 71-74: int(percent * size / 100) for an integer percent >= 0 *)
PercentToPixels(percent, size) == (NumVal[percent.val] * size) \div 100

PixelBox(c, img) ==
    <<PercentToPixels(c[1], img[1]), PercentToPixels(c[2], img[2]),
      PercentToPixels(c[3], img[1]), PercentToPixels(c[4], img[2])>>

(* Line 81: the name with "/", ":" and " " replaced *)
SafeNameOf(name) ==
    IF name.type = "default" THEN name.val
    ELSE SafeName[CHOOSE str \in DOMAIN SafeName : Quoted(str) = name.val]

(* Line 82 *)
DetectFileName(page, k, safe_name) ==
    "page_" \o Format02d(page) \o "_panel_" \o Format02d(k) \o "_" \o safe_name \o ".png"

(* Lines 67-84 raise nothing for the k-th panel: it is an object, its bbox *)
(* an object of numbers that image.crop takes, its name a string           *)
PanelSaves(item, k, img) ==
    /\ item.type = "object"
    /\ BBoxOf(item).type = "object"
    /\ \A i \in 1..4 : Corners(BBoxOf(item))[i].type = "number"
    /\ PixelBox(Corners(BBoxOf(item)), img)[1] <= PixelBox(Corners(BBoxOf(item)), img)[3]
    /\ PixelBox(Corners(BBoxOf(item)), img)[2] <= PixelBox(Corners(BBoxOf(item)), img)[4]
    /\ NameOf(item, k).type \in {"string", "default"}

SavedPanel(item, k, img, page) ==
    [file |-> DetectFileName(page, k, SafeNameOf(NameOf(item, k))),
     crop |-> PixelBox(Corners(BBoxOf(item)), img)]

(* Lines 66-86: the crops saved for the panels k.. of the list, up to the  *)
(* first panel at which an exception is raised                             *)
RECURSIVE SavePanels(_, _, _, _, _)
SavePanels(items, k, img, page, files) ==
    IF k > Len(items) THEN [ok |-> TRUE, files |-> files]
    ELSE IF ~PanelSaves(items[k], k, img) THEN [ok |-> FALSE, files |-> files]
    ELSE SavePanels(items, k + 1, img, page, Append(files, SavedPanel(items[k], k, img, page)))

(* Lines 60-86: what detect_panels_in_image saves for a truthy value *)
DetectSaves(value, img, page) ==
    IF value.type = "array" THEN SavePanels(value.val, 1, img, page, <<>>)
    ELSE [ok |-> FALSE, files |-> <<>>]

(* The texts the model may send.  Documents (JSON texts): *)
DocOne ==         \* one panel, as extract_from_image reads it
    <<"{", Quoted("panels"), ":", "[", "{", Quoted("panel_header"), ":", "{",
      Quoted("panel_name"), ":", Quoted("LP-1"), "}", ",", Quoted("circuits"), ":", "[",
      "{", Quoted("load_description"), ":", Quoted("Lighting"), "}", "]", "}", "]", "}">>

DocTwo ==         \* two panels, as detect_panels_in_image reads them
    <<"{", Quoted("panels"), ":", "[", "{", Quoted("panel_name"), ":", Quoted("LP 2"), ",",
      Quoted("bbox"), ":", "{", Quoted("x1"), ":", "0", ",", Quoted("x2"), ":", "50", "}",
      "}", ",", " ", "{", Quoted("panel_name"), ":", Quoted("LP-1"), "}", "]", "}">>

DocNoPanels == <<"{", Quoted("panels"), ":", "[", "]", "}">>
DocNoKey == <<"{", Quoted("other"), ":", "[", "]", "}">>
DocArray == <<"[", "{", Quoted("panel_name"), ":", Quoted("LP-1"), "}", "]">>
DocNullPanels == <<"{", Quoted("panels"), ":", "null", "}">>
DocStringPanels == <<"{", Quoted("panels"), ":", Quoted("LP-1"), "}">>
DocNullName ==
    <<"{", Quoted("panels"), ":", "[", "{", Quoted("panel_header"), ":", "{",
      Quoted("panel_name"), ":", "null", "}", "}", "]", "}">>
DocNull == <<"null">>

Docs == {DocOne, DocTwo, DocNoPanels, DocNoKey, DocArray, DocNullPanels, DocStringPanels,
         DocNullName, DocNull}

(* the answer in the format PANEL_EXTRACTION_PROMPT asks for (src/prompts.py, *)
(* lines 38-57): a label and a JSON object, then a label and a JSON array     *)
PromptHeader == <<"{", Quoted("panel_name"), ":", Quoted("LP-1"), "}">>
PromptCircuits == <<"[", "{", Quoted("load_description"), ":", Quoted("Lighting"), "}", "]">>
PromptAnswer ==
    <<"PANEL_HEADER:", "\n">> \o PromptHeader \o <<"\n", "CIRCUITS:", "\n">> \o PromptCircuits

(* a document cut off by the output limit, behind a comma *)
CutOff == SubSeq(DocTwo, 1, 22)

Blank == <<" ", "\n">>

Texts == Docs \cup {PromptAnswer, CutOff, Blank, <<>>}

Wraps == {"bare", "json", "plain", "json padded", "plain padded"}

Wrapped(text, w) ==
    CASE w = "bare" -> text
      [] w = "json" -> FenceJson \o <<"\n">> \o text \o <<"\n">> \o Fence
      [] w = "plain" -> Fence \o <<"\n">> \o text \o <<"\n">> \o Fence
      [] w = "json padded" -> <<"\n", " ">> \o FenceJson \o text \o Fence \o <<" ", "\n">>
      [] w = "plain padded" -> <<" ">> \o Fence \o <<" ">> \o text \o <<" ">> \o Fence \o <<"\n">>

(* the detector is not running *)
DetectorIdle ==
    /\ contours = <<>>
    /\ cfg = DefaultConfig
    /\ pc = "idle"
    /\ bounding_boxes = <<>>
    /\ min_width = Unset
    /\ min_height = Unset
    /\ max_width = Unset
    /\ max_height = Unset
    /\ idx = 1
    /\ panels = <<>>
    /\ panel_count = 0
    /\ saved = <<>>
    /\ calls = 0
    /\ returned = <<>>
    /\ other = NoCall

(* one call of extract_from_image(image) or detect_panels_in_image(image,  *)
(* page_num); what the model answers is fixed from the start               *)
InitExtractor ==
    /\ DetectorIdle
    /\ OutsideExtractorIdle
    /\ image = BigImage
    /\ debug_dir = <<>>
    /\ method \in {"extract", "detect"}
    /\ page_num \in IF method = "detect" THEN PageNums ELSE {0}
    /\ ex_pc = "idle"
    /\ doc \in Texts
    /\ wrap \in Wraps
    /\ \/ response = [kind |-> "text", text |-> Wrapped(doc, wrap)]
       \/ doc = <<>> /\ wrap = "bare" /\ response \in {[kind |-> "none", text |-> <<>>],
                                                    [kind |-> "error", text |-> <<>>]}
    /\ requests = 0
    /\ decoded = <<>>
    /\ result = NoValue
    /\ reported = <<>>

(* the debug directory after the files have been saved in order *)
WriteAll(files, dir) ==
    LET names == {files[k].file : k \in DOMAIN files}
    IN  [f \in names \cup DOMAIN dir |->
            IF f \in names
            THEN files[SetMax({k \in DOMAIN files : files[k].file = f})].crop
            ELSE dir[f]]

(* the locals of the running method *)
Handed == Prepared(method, response.text)          \* response_text at json.loads
Data == Loads(Handed)                               \* data
Value == Get(Data.val, Quoted("panels"), EmptyList) \* panels

Repaired == method = "extract" /\ Handed # StripFences(response.text)

Saves == IF method = "detect" /\ Truthy(Value)
         THEN DetectSaves(Value, image, page_num)
         ELSE [ok |-> TRUE, files |-> <<>>]

(* lines 58-86 and 140-145 raise nothing *)
Handles ==
    /\ Data.val.type = "object"
    /\ \/ ~Truthy(Value)
       \/ method = "extract" /\ NamesJoin(Value)
       \/ method = "detect" /\ Saves.ok

Said(messages) ==
    reported \o (IF Repaired THEN <<"Warning: Response appears incomplete">> ELSE <<>>)
             \o messages

(* Lines 35-38 and 110-113: the request to the model *)
ExCall ==
    /\ ex_pc = "idle"
    /\ requests' = requests + 1
    /\ ex_pc' = "asked"
    /\ UNCHANGED outsideExtractor
    /\ UNCHANGED <<detectorVars, debug_dir, method, doc, wrap, response, decoded, result,
                   reported>>

(* Lines 95-97 and 156-158: generate_content raised *)
ExApiError ==
    /\ ex_pc = "asked"
    /\ response.kind = "error"
    /\ reported' = Append(reported, IF method = "extract"
                                    THEN "Error extracting data from image"
                                    ELSE "Error detecting panels")
    /\ result' = EmptyList
    /\ ex_pc' = "returned"
    /\ UNCHANGED outsideExtractor
    /\ UNCHANGED <<detectorVars, debug_dir, method, doc, wrap, response, requests, decoded>>

(* Lines 40-42 and 116-118: no text in the response *)
ExEmpty ==
    /\ ex_pc = "asked"
    /\ response.kind # "error"
    /\ response.text = <<>>
    /\ reported' = Append(reported, "Warning: Empty response from Gemini API")
    /\ result' = EmptyList
    /\ ex_pc' = "returned"
    /\ UNCHANGED outsideExtractor
    /\ UNCHANGED <<detectorVars, debug_dir, method, doc, wrap, response, requests, decoded>>

(* faulty variant: a text that does not decode is asked for again *)
ExDecodeErrorRetries ==
    /\ ex_pc = "asked"
    /\ response.kind = "text" /\ response.text # <<>>
    /\ ~Data.ok
    /\ decoded' = Append(decoded, Handed)
    /\ requests' = requests + 1
    /\ UNCHANGED outsideExtractor
    /\ UNCHANGED <<detectorVars, debug_dir, method, doc, wrap, response, ex_pc, result,
                   reported>>

(* Lines 90-94 and 149-155: json.loads raised JSONDecodeError *)
ExDecodeError ==
    /\ ex_pc = "asked"
    /\ response.kind = "text" /\ response.text # <<>>
    /\ ~Data.ok
    /\ decoded' = Append(decoded, Handed)
    /\ reported' = Said(<<"Error parsing JSON response">>)
    /\ result' = EmptyList
    /\ ex_pc' = "returned"
    /\ UNCHANGED outsideExtractor
    /\ UNCHANGED <<detectorVars, debug_dir, method, doc, wrap, response, requests>>

(* Lines 95-97 and 156-158: the decoded value is not what lines 58-86 and  *)
(* 140-145 can handle; the crops saved before the exception stay           *)
ExFault ==
    /\ ex_pc = "asked"
    /\ response.kind = "text" /\ response.text # <<>>
    /\ Data.ok
    /\ ~Handles
    /\ decoded' = Append(decoded, Handed)
    /\ debug_dir' = IF Data.val.type = "object" THEN WriteAll(Saves.files, debug_dir)
                    ELSE debug_dir
    /\ reported' = Said(<<IF method = "extract" THEN "Error extracting data from image"
                          ELSE "Error detecting panels">>)
    /\ result' = EmptyList
    /\ ex_pc' = "returned"
    /\ UNCHANGED outsideExtractor
    /\ UNCHANGED <<detectorVars, method, doc, wrap, response, requests>>

(* Lines 57-88 and 139-147: the value of "panels" is returned *)
ExPanels ==
    /\ ex_pc = "asked"
    /\ response.kind = "text" /\ response.text # <<>>
    /\ Data.ok
    /\ Handles
    /\ decoded' = Append(decoded, Handed)
    /\ debug_dir' = WriteAll(Saves.files, debug_dir)
    /\ reported' = Said(IF ~Truthy(Value) THEN <<>>
                        ELSE IF method = "extract" THEN <<"Extracted panels">>
                        ELSE <<"Detected panels">>)
    /\ result' = Value
    /\ ex_pc' = "returned"
    /\ UNCHANGED outsideExtractor
    /\ UNCHANGED <<detectorVars, method, doc, wrap, response, requests>>

NextExtractor == ExCall \/ ExApiError \/ ExEmpty \/ ExDecodeError \/ ExFault \/ ExPanels

(* one call of a method of PanelExtractor on one response of the model *)
SpecExtractor == InitExtractor /\ [][NextExtractor]_vars

-----------------------------------------------------------------------------
(* The CSV writers of src/csv_writer.py.  A file is the sequence of its    *)
(* rows, a row the sequence of its cells, a panel a JSON value.            *)

(* the string a quoted token stands for *)
Content(tok) == CHOOSE str \in DOMAIN SafeName : Quoted(str) = tok

(* str(v) as csv.writer and the f-strings write a value *)
Text(v) ==
    CASE v.type = "string" -> Content(v.val)
      [] v.type = "number" -> v.val
      [] v.type = "null" -> ""

NoText == JString(Quoted(""))

(* Lines 12-28, clean_ocp_size, on the strings of the texts: the first     *)
(* number of the string, without a fraction of zeros; the string itself    *)
(* where it holds no number                                                *)
CleanOcp ==
    ("20A" :> "20") @@ ("225A" :> "225") @@ ("12.5A" :> "12.5") @@ ("60.00A MCB" :> "60")
    @@ ("120/208V" :> "120") @@ ("LP-1" :> "1") @@ ("LP 2" :> "2") @@ ("2,4" :> "2")
    @@ ("x1" :> "1") @@ ("y1" :> "1") @@ ("x2" :> "2") @@ ("y2" :> "2")
    @@ [str \in DOMAIN SafeName |-> str]

(* clean_ocp_size(v) raises TypeError for a truthy value that is no string *)
OcpCleans(v) == ~Truthy(v) \/ v.type = "string"

clean_ocp_size(v) == IF ~Truthy(v) THEN "" ELSE CleanOcp[Content(v.val)]

(* Lines 190-201: the amperage of main_ocpd, "<number>A", where the string *)
(* holds a number followed by A; the string itself where it does not       *)
MainAmps ==
    ("20A" :> "20A") @@ ("225A" :> "225A") @@ ("12.5A" :> "12.5A")
    @@ ("60.00A MCB" :> "60A") @@ [str \in DOMAIN SafeName |-> str]

HeaderFields ==
    <<"panel_name", "bus_amperage", "main_ocpd", "voltage", "phase", "wire", "poles",
      "kaic", "enclosure">>

(* Lines 59-70, 118-125 and 223 *)
HeadersColumns ==
    <<"Source Image", "Panel Name", "Panel Amperage of Lugs and Bus",
      "Panel Amperage of Main Circuit Breaker or Main Fuse", "Panel Voltages",
      "Panel Phases", "Panel Wire", "Panel Pole(Circuit)#",
      "Panel Short Circuit Rating (KAIC)", "Panel Enclosure Type">>

CircuitsColumns ==
    <<"Source Image", "Load Description", "OCP Size", "Poles", "Feeder", "Circuit Number">>

CombinedColumns ==
    <<"", "Panel Name", "2", "Load Description", "Quantity", "OCP", "Poles", "Feeder", "Ckt#">>

Field(obj, key) == Get(obj, Quoted(key), NoText)

HeaderOf(panel) == Get(panel, Quoted("panel_header"), JObject(<<>>))

CircuitsOf(panel) == Get(panel, Quoted("circuits"), EmptyList)

(* what one call wrote before it returned or raised *)
Wrote(rows) == [rows |-> rows, raised |-> FALSE]
Broke(rows) == [rows |-> rows, raised |-> TRUE]

(* Lines 52-87, write_panel_header: the rows written by one call *)
HeaderRows(panel, image_name, is_new_file) ==
    LET first == IF is_new_file THEN <<HeadersColumns>> ELSE <<>>
    IN  IF panel.type # "object" \/ HeaderOf(panel).type # "object" THEN Broke(first)
        ELSE Wrote(first \o
                   << <<image_name>> \o
                      [i \in 1..Len(HeaderFields) |-> Text(Field(HeaderOf(panel), HeaderFields[i]))]
                   >>)

(* Lines 136-143: the row of one circuit *)
CircuitRow(circuit, image_name) ==
    <<image_name, Text(Field(circuit, "load_description")),
      clean_ocp_size(Field(circuit, "ocp_size")), Text(Field(circuit, "poles")),
      Text(Field(circuit, "feeder")), Text(Field(circuit, "circuit_number"))>>

(* the circuit at which the loop over the circuits raises, if any *)
BadCircuits(circuits) ==
    {k \in DOMAIN circuits :
        circuits[k].type # "object" \/ ~OcpCleans(Field(circuits[k], "ocp_size"))}

GoodPrefix(circuits) ==
    IF BadCircuits(circuits) = {} THEN circuits
    ELSE SubSeq(circuits, 1, SetMin(BadCircuits(circuits)) - 1)

(* Lines 111-143, write_circuits: the rows written by one call *)
CircuitRows(panel, image_name, is_new_file) ==
    LET first == IF is_new_file THEN <<CircuitsColumns>> ELSE <<>>
    IN  IF panel.type # "object" \/ HeaderOf(panel).type # "object" THEN Broke(first)
        ELSE IF ~Truthy(CircuitsOf(panel)) THEN Wrote(first)
        ELSE IF CircuitsOf(panel).type # "array" THEN Broke(first)
        ELSE LET good == GoodPrefix(CircuitsOf(panel).val)
                 rows == [k \in DOMAIN good |-> CircuitRow(good[k], image_name)]
             IN  IF Len(good) < Len(CircuitsOf(panel).val) THEN Broke(first \o rows)
                 ELSE Wrote(first \o rows)

(* Lines 183-214: the parts of the panel description, in order; a part is *)
(* a JSON value where the code appends the field itself, a string value    *)
(* where it formats one                                                    *)
Part(label, v) == <<label, v>>

Labels ==
    [panel_name |-> "Pnl: ", bus_amperage |-> "Bus/Lug: ", main_ocpd |-> "Main: ",
     voltage |-> "", phase |-> "", wire |-> "", poles |-> "Poles: ", kaic |-> "",
     enclosure |-> ""]

(* the fields the code formats with an f-string, which takes any value *)
Formatted == {"panel_name", "bus_amperage", "main_ocpd", "poles"}

RECURSIVE HeaderParts(_, _)
HeaderParts(header, i) ==
    IF i > Len(HeaderFields) THEN <<>>
    ELSE LET key == HeaderFields[i]
             v == Get(header, Quoted(key), JNull)
         IN  (IF Truthy(v) THEN <<Part(key, v)>> ELSE <<>>) \o HeaderParts(header, i + 1)

(* re.search at line 194 raises TypeError for a main_ocpd that is no string; *)
(* join at line 216 raises TypeError for a part that is no string            *)
PartRaises(part) ==
    \/ part[1] = "main_ocpd" /\ part[2].type # "string"
    \/ part[1] \notin Formatted /\ part[2].type # "string"

PartText(part) ==
    Labels[part[1]] \o
    (IF part[1] = "main_ocpd" THEN MainAmps[Content(part[2].val)] ELSE Text(part[2]))

RECURSIVE Join(_)
Join(parts) ==
    IF parts = <<>> THEN ""
    ELSE IF Len(parts) = 1 THEN parts[1]
    ELSE parts[1] \o " | " \o Join(Tail(parts))

(* Lines 183-216, panel_description *)
Description(header, image_name) ==
    LET parts == HeaderParts(header, 1)
    IN  Join((IF image_name # "" THEN <<"Source: " \o image_name>> ELSE <<>>) \o
             [k \in DOMAIN parts |-> PartText(parts[k])])

DescriptionRaises(header) ==
    \E k \in DOMAIN HeaderParts(header, 1) : PartRaises(HeaderParts(header, 1)[k])

(* Lines 229-239: the row of one circuit in the combined layout *)
CombinedCircuitRow(circuit, panel_name) ==
    <<"", panel_name, "", Text(Field(circuit, "load_description")), "1",
      clean_ocp_size(Field(circuit, "ocp_size")), Text(Field(circuit, "poles")),
      Text(Field(circuit, "feeder")), Text(Field(circuit, "circuit_number"))>>

(* Lines 175-247, write_panel: the rows written by one call *)
CombinedRows(panel, image_name) ==
    IF panel.type # "object" \/ HeaderOf(panel).type # "object" THEN Broke(<<>>)
    ELSE IF DescriptionRaises(HeaderOf(panel)) THEN Broke(<<>>)
    ELSE LET panel_name == Text(Field(HeaderOf(panel), "panel_name"))
             top == << <<"", "", "1", Description(HeaderOf(panel), image_name)>>,
                       CombinedColumns >>
             circuits == CircuitsOf(panel)
         IN  IF ~Truthy(circuits)
             THEN Wrote(top \o << <<"", panel_name, "", "NO CIRCUITS FOUND">>, <<>>, <<>> >>)
             ELSE IF circuits.type # "array" THEN Broke(top)
             ELSE LET good == GoodPrefix(circuits.val)
                      rows == [k \in DOMAIN good |-> CombinedCircuitRow(good[k], panel_name)]
                  IN  IF Len(good) < Len(circuits.val) THEN Broke(top \o rows)
                      ELSE Wrote(top \o rows \o << <<>>, <<>> >>)

(* panels as json.loads gives them *)
Member(key, toks) == <<Quoted(key), ":">> \o toks
Str(str) == <<Quoted(str)>>

PanelFull ==
    <<"{">> \o Member("panel_header",
                   <<"{">> \o Member("panel_name", Str("LP-1")) \o <<",">>
                   \o Member("main_ocpd", Str("60.00A MCB")) \o <<",">>
                   \o Member("voltage", Str("120/208V")) \o <<"}">>)
    \o <<",">> \o Member("circuits",
                   <<"[", "{">> \o Member("load_description", Str("Lighting")) \o <<",">>
                   \o Member("ocp_size", Str("20A")) \o <<",">>
                   \o Member("poles", Str("1")) \o <<",">>
                   \o Member("circuit_number", Str("2,4")) \o <<"}", "]">>)
    \o <<"}">>

PanelNoCircuits ==
    <<"{">> \o Member("panel_header",
                   <<"{">> \o Member("panel_name", Str("LP 2")) \o <<",">>
                   \o Member("bus_amperage", Str("225A")) \o <<",">>
                   \o Member("main_ocpd", Str("MLO")) \o <<",">>
                   \o Member("poles", <<"7">>) \o <<"}">>)
    \o <<",">> \o Member("circuits", <<"[", "]">>) \o <<"}">>

PanelBadCircuit ==       \* the second circuit has a number for its ocp_size
    <<"{">> \o Member("panel_header", <<"{">> \o Member("panel_name", <<"null">>) \o <<"}">>)
    \o <<",">> \o Member("circuits",
                   <<"[", "{">> \o Member("load_description", Str("Pump")) \o <<",">>
                   \o Member("ocp_size", Str("12.5A")) \o <<"}", ",", "{">>
                   \o Member("ocp_size", <<"7">>) \o <<"}", "]">>)
    \o <<"}">>

PanelNullHeader == <<"{">> \o Member("panel_header", <<"null">>) \o <<"}">>

PanelNumberVoltage ==
    <<"{">> \o Member("panel_header", <<"{">> \o Member("voltage", <<"50">>) \o <<"}">>)
    \o <<"}">>

PanelString == Str("other")

PanelTexts ==
    {PanelFull, PanelNoCircuits, PanelBadCircuit, PanelNullHeader, PanelNumberVoltage,
     PanelString}

WriterPanels == {Loads(text).val : text \in PanelTexts}

ImageNames == {"a.png", "b.png"}

Kinds == {"headers", "circuits", "combined"}

(* the path a writer of each kind is given, main.py lines 237-242 *)
PathOf ==
    [headers |-> "panel_headers.csv", circuits |-> "panel_circuits.csv",
     combined |-> "panel_schedules_combined.csv"]

(* a file left by an earlier run *)
Earlier == File(<< <<"earlier">> >>)

InitWriters ==
    /\ DetectorIdle
    /\ image = BigImage
    /\ page_num = 1
    /\ debug_dir = <<>>
    /\ ExtractorIdle
    /\ BatchIdle
    /\ LaterIdle
    /\ fs \in [Paths -> {NoFile, Earlier}]
    /\ writers = <<>>
    /\ writes = 0
    /\ last_write = NoWrite
    /\ written = <<>>

(* Lines 34-42, 93-101 and 149-157, __init__ *)
NewWriter ==
    /\ Len(writers) < MaxWriters
    /\ \E kind \in Kinds :
          writers' = Append(writers, [kind |-> kind, output_path |-> PathOf[kind],
                                      is_new_file |-> ~fs[PathOf[kind]].exists])
    /\ UNCHANGED laterVars
    /\ UNCHANGED <<detectorVars, debug_dir, extractorVars, batchVars, fs, writes, last_write,
                   written>>

(* the file after open(output_path, mode) and the rows of one call: mode *)
(* 'w' empties the file, mode 'a' keeps what it holds                    *)
Opened(path, is_new_file, rows) ==
    [fs EXCEPT ![path] = File((IF is_new_file THEN <<>> ELSE fs[path].rows) \o rows)]

(* faulty variant: the new-file flag is never cleared *)
write_panel_headerKeepsFlag(i, panel, image_name) ==
    LET out == HeaderRows(panel, image_name, writers[i].is_new_file)
    IN  /\ writers[i].kind = "headers"
        /\ fs' = Opened(writers[i].output_path, writers[i].is_new_file, out.rows)
        /\ writers' = writers
        /\ last_write' = [writer |-> i, raised |-> out.raised]
        /\ written' = Append(written, [writer |-> i, panel |-> panel,
                                       image_name |-> image_name])

(* Lines 44-87 *)
write_panel_header(i, panel, image_name) ==
    LET out == HeaderRows(panel, image_name, writers[i].is_new_file)
    IN  /\ writers[i].kind = "headers"
        /\ fs' = Opened(writers[i].output_path, writers[i].is_new_file, out.rows)
        /\ writers' = [writers EXCEPT ![i].is_new_file = FALSE]
        /\ last_write' = [writer |-> i, raised |-> out.raised]
        /\ written' = Append(written, [writer |-> i, panel |-> panel,
                                       image_name |-> image_name])

(* Lines 103-143 *)
write_circuits(i, panel, image_name) ==
    LET out == CircuitRows(panel, image_name, writers[i].is_new_file)
    IN  /\ writers[i].kind = "circuits"
        /\ fs' = Opened(writers[i].output_path, writers[i].is_new_file, out.rows)
        /\ writers' = [writers EXCEPT ![i].is_new_file = FALSE]
        /\ last_write' = [writer |-> i, raised |-> out.raised]
        /\ written' = Append(written, [writer |-> i, panel |-> panel,
                                       image_name |-> image_name])

(* Lines 159-247; is_first_panel is the new-file flag of this kind *)
write_panel(i, panel, image_name) ==
    LET out == CombinedRows(panel, image_name)
    IN  /\ writers[i].kind = "combined"
        /\ fs' = Opened(writers[i].output_path, writers[i].is_new_file, out.rows)
        /\ writers' = [writers EXCEPT
                          ![i].is_new_file = IF out.raised THEN @ ELSE FALSE]
        /\ last_write' = [writer |-> i, raised |-> out.raised]
        /\ written' = Append(written, [writer |-> i, panel |-> panel,
                                       image_name |-> image_name])

WriteHeader ==
    /\ writes < MaxWrites
    /\ \E i \in DOMAIN writers, panel \in WriterPanels, image_name \in ImageNames :
          write_panel_header(i, panel, image_name)
    /\ writes' = writes + 1
    /\ UNCHANGED laterVars
    /\ UNCHANGED <<detectorVars, debug_dir, extractorVars, batchVars>>

WriteCircuits ==
    /\ writes < MaxWrites
    /\ \E i \in DOMAIN writers, panel \in WriterPanels, image_name \in ImageNames :
          write_circuits(i, panel, image_name)
    /\ writes' = writes + 1
    /\ UNCHANGED laterVars
    /\ UNCHANGED <<detectorVars, debug_dir, extractorVars, batchVars>>

WritePanel ==
    /\ writes < MaxWrites
    /\ \E i \in DOMAIN writers, panel \in WriterPanels, image_name \in ImageNames :
          write_panel(i, panel, image_name)
    /\ writes' = writes + 1
    /\ UNCHANGED laterVars
    /\ UNCHANGED <<detectorVars, debug_dir, extractorVars, batchVars>>

NextWriters == NewWriter \/ WriteHeader \/ WriteCircuits \/ WritePanel

(* writers made and used in any order, on files that may be there already *)
SpecWriters == InitWriters /\ [][NextWriters]_vars

(* Lines 34-42 and 93-101: a headers or circuits writer made on a path no  *)
(* other instance was made on                                              *)
NewSoleWriter ==
    /\ NewWriter
    /\ Last(writers').kind # "combined"
    /\ \A i \in DOMAIN writers : writers[i].output_path # Last(writers').output_path

InitFresh == InitWriters /\ fs = [path \in Paths |-> NoFile]

NextFresh == NewSoleWriter \/ WriteHeader \/ WriteCircuits

(* headers and circuits writers, one for each path, in a new folder *)
SpecFresh == InitFresh /\ [][NextFresh]_vars

-----------------------------------------------------------------------------
(* process_images of src/main.py (lines 204-292) and of src/app.py (lines  *)
(* 51-122): the loop over the input images.                                *)

(* the file name of the image at a position of the list *)
NameAt(k) == "image" \o ToString(k) \o ".png"

(* what the model would answer for an image *)
Answers == {DocOne, DocNoPanels, CutOff}

Images == [opens : BOOLEAN, answer : Answers]

ImageLists == UNION {[1..n -> Images] : n \in 0..MaxImages}

FreshFolder == [path \in Paths |-> NoFile]
UsedFolder == [path \in Paths |-> Earlier]

InitBatch ==
    /\ DetectorIdle
    /\ image = BigImage
    /\ page_num = 1
    /\ debug_dir = <<>>
    /\ ExtractorIdle
    /\ LaterIdle
    /\ front \in {"cli", "web"}
    /\ image_files \in ImageLists
    /\ fs \in {FreshFolder, UsedFolder}
    /\ writers = <<>>
    /\ writes = 0
    /\ last_write = NoWrite
    /\ written = <<>>
    /\ pi_pc = "idle"
    /\ pi_idx = 1
    /\ all_panels = <<>>
    /\ visited = <<>>
    /\ errors = <<>>

(* main.py lines 224-227: no image in the folder, nothing is created *)
PiNoImages ==
    /\ pi_pc = "idle"
    /\ front = "cli"
    /\ image_files = <<>>
    /\ pi_pc' = "done"
    /\ UNCHANGED laterVars
    /\ UNCHANGED <<detectorVars, debug_dir, extractorVars, writerVars, front, image_files,
                   pi_idx, all_panels, visited, errors>>

(* a writer as its __init__ leaves it *)
Made(kind, files) ==
    [kind |-> kind, output_path |-> PathOf[kind], is_new_file |-> ~files[PathOf[kind]].exists]

(* main.py lines 232-243, app.py lines 55-68: the web application removes  *)
(* the output folder first (create_output_folder, app.py lines 44-45)      *)
PiStart ==
    /\ pi_pc = "idle"
    /\ front = "web" \/ image_files # <<>>
    /\ fs' = IF front = "web" THEN FreshFolder ELSE fs
    /\ writers' = <<Made("headers", fs'), Made("circuits", fs'), Made("combined", fs')>>
    /\ all_panels' = <<>>
    /\ pi_idx' = 1
    /\ pi_pc' = "loop"
    /\ UNCHANGED laterVars
    /\ UNCHANGED <<detectorVars, debug_dir, extractorVars, writes, last_write, written,
                   front, image_files, visited, errors>>

(* faulty variant: the exception of Image.open leaves the loop *)
PiOpenFailsAborts ==
    /\ pi_pc = "loop"
    /\ pi_idx <= Len(image_files)
    /\ ~image_files[pi_idx].opens
    /\ visited' = Append(visited, NameAt(pi_idx))
    /\ pi_pc' = "done"
    /\ UNCHANGED laterVars
    /\ UNCHANGED <<detectorVars, debug_dir, extractorVars, writerVars, front, image_files,
                   pi_idx, all_panels, errors>>

(* main.py line 254, app.py line 83: Image.open raises, and the handler of  *)
(* main.py lines 268-269, app.py lines 96-97, goes on with the next image   *)
PiOpenFails ==
    /\ pi_pc = "loop"
    /\ pi_idx <= Len(image_files)
    /\ ~image_files[pi_idx].opens
    /\ visited' = Append(visited, NameAt(pi_idx))
    /\ errors' = Append(errors, [image |-> NameAt(pi_idx), at |-> "open"])
    /\ pi_idx' = pi_idx + 1
    /\ UNCHANGED laterVars
    /\ UNCHANGED <<detectorVars, debug_dir, extractorVars, writerVars, front, image_files,
                   pi_pc, all_panels>>

(* main.py lines 254-255, app.py line 83: the image opens *)
PiOpen ==
    /\ pi_pc = "loop"
    /\ pi_idx <= Len(image_files)
    /\ image_files[pi_idx].opens
    /\ visited' = Append(visited, NameAt(pi_idx))
    /\ pi_pc' = "opened"
    /\ UNCHANGED laterVars
    /\ UNCHANGED <<detectorVars, debug_dir, extractorVars, writerVars, front, image_files,
                   pi_idx, all_panels, errors>>

(* main.py line 257, app.py line 86: extract_from_image(image, name) gives  *)
(* two arguments to a method that takes one (panel_extractor.py line 99);   *)
(* the call raises TypeError before the method runs, no request is made,    *)
(* and the same handler goes on with the next image                         *)
PiExtract ==
    /\ pi_pc = "opened"
    /\ errors' = Append(errors, [image |-> NameAt(pi_idx), at |-> "extract"])
    /\ pi_idx' = pi_idx + 1
    /\ pi_pc' = "loop"
    /\ UNCHANGED laterVars
    /\ UNCHANGED <<detectorVars, debug_dir, extractorVars, writerVars, front, image_files,
                   all_panels, visited>>

(* main.py lines 272 and 290-292, app.py lines 100 and 120-122: the loop is *)
(* over and all_panels is empty, no workbook is made                        *)
PiFinish ==
    /\ pi_pc = "loop"
    /\ pi_idx > Len(image_files)
    /\ all_panels = <<>>
    /\ pi_pc' = "done"
    /\ UNCHANGED laterVars
    /\ UNCHANGED <<detectorVars, debug_dir, extractorVars, writerVars, front, image_files,
                   pi_idx, all_panels, visited, errors>>

NextBatch == PiNoImages \/ PiStart \/ PiOpenFails \/ PiOpen \/ PiExtract \/ PiFinish

(* one run of process_images on a list of images *)
SpecBatch == InitBatch /\ [][NextBatch]_vars

(* what extract_from_image returns for an answer of the model (lines 116-158) *)
Extracted(text) ==
    LET data == Loads(Prepared("extract", text))
    IN  IF Strip(text) = <<>> \/ ~data.ok \/ data.val.type # "object" THEN EmptyList
        ELSE Get(data.val, Quoted("panels"), EmptyList)

-----------------------------------------------------------------------------
(* PanelExtractor.extract_from_pdf_page_images (src/panel_extractor.py,    *)
(* lines 160-211): the loop over the page images.                          *)

(* a page: the bounding rectangles of its contours, what the model answers *)
(* for it, and whether the debug writes of its crops succeed               *)
Pages ==
    [contours : {<<>>, <<BoxR>>}, answer : {DocTwo, CutOff, DocStringPanels},
     save_ok : BOOLEAN]

PageLists == UNION {[1..n -> Pages] : n \in 0..MaxPages}

(* Line 186: what detect_panels_with_opencv(image, page_num) returns, with *)
(* its default options                                                     *)
OpenCVPanels(page) == DetectAlone(BigImage, page.contours, DefaultConfig)

(* the debug files of the regions of a page, opencv_detector.py lines 88-90 *)
RECURSIVE OpenCVFiles(_, _, _)
OpenCVFiles(found, page, dir) ==
    IF found = <<>> THEN dir
    ELSE OpenCVFiles(SubSeq(found, 1, Len(found) - 1), page,
                     (DebugFileName(page, Len(found)) :> Last(found).crop) @@ dir)

(* Lines 34-97: what detect_panels_in_image(image, page_num) returns for a *)
(* text of the model and the crops it saves; it raises nothing             *)
GeminiPanels(text, page) ==
    LET data  == Loads(StripFences(text))
        value == Get(data.val, Quoted("panels"), EmptyList)
        saves == DetectSaves(value, BigImage, page)
    IN  IF text = <<>> \/ ~data.ok \/ data.val.type # "object"
        THEN [panels |-> EmptyList, files |-> <<>>]
        ELSE IF ~Truthy(value) THEN [panels |-> value, files |-> <<>>]
        ELSE IF saves.ok THEN [panels |-> value, files |-> saves.files]
        ELSE [panels |-> EmptyList, files |-> saves.files]

InitPages ==
    /\ DetectorIdle
    /\ image = BigImage
    /\ page_num = 1
    /\ debug_dir = <<>>
    /\ ExtractorIdle
    /\ WritersIdle
    /\ BatchIdle
    /\ ExcelIdle
    /\ RunIdle
    /\ use_opencv \in BOOLEAN
    /\ images \in PageLists
    /\ pdf_pc = "idle"
    /\ pdf_idx = 1
    /\ detected = <<>>
    /\ pdf_result = NoValue

outsidePages == <<detectorVars, extractorVars, writerVars, batchVars, excelVars, runVars>>

(* Lines 171-178 *)
PdfStart ==
    /\ pdf_pc = "idle"
    /\ pdf_pc' = "loop"
    /\ pdf_idx' = 1
    /\ UNCHANGED outsidePages
    /\ UNCHANGED <<debug_dir, use_opencv, images, detected, pdf_result>>

(* Lines 184-190: the OpenCV detector returns for the page *)
PdfOpenCVPage ==
    /\ pdf_pc = "loop"
    /\ pdf_idx <= Len(images)
    /\ use_opencv
    /\ OpenCVPanels(images[pdf_idx]) = <<>> \/ images[pdf_idx].save_ok
    /\ detected' = Append(detected, OpenCVPanels(images[pdf_idx]))
    /\ debug_dir' = OpenCVFiles(OpenCVPanels(images[pdf_idx]), pdf_idx, debug_dir)
    /\ pdf_idx' = pdf_idx + 1
    /\ UNCHANGED outsidePages
    /\ UNCHANGED <<use_opencv, images, pdf_pc, pdf_result>>

(* Line 186: the OpenCV detector raises (the debug write of a region fails, *)
(* opencv_detector.py line 90); nothing in the loop catches it              *)
PdfOpenCVRaises ==
    /\ pdf_pc = "loop"
    /\ pdf_idx <= Len(images)
    /\ use_opencv
    /\ OpenCVPanels(images[pdf_idx]) # <<>> /\ ~images[pdf_idx].save_ok
    /\ pdf_pc' = "raised"
    /\ UNCHANGED outsidePages
    /\ UNCHANGED <<debug_dir, use_opencv, images, pdf_idx, detected, pdf_result>>

(* Lines 191-197: detect_panels_in_image returns for the page; json.loads  *)
(* gives a Python list for the panels, kept as the list of its items       *)
PdfGeminiPage ==
    /\ pdf_pc = "loop"
    /\ pdf_idx <= Len(images)
    /\ ~use_opencv
    /\ LET found == GeminiPanels(images[pdf_idx].answer, pdf_idx)
       IN  /\ detected' = Append(detected, IF found.panels.type = "array"
                                           THEN found.panels.val ELSE <<>>)
           /\ debug_dir' = WriteAll(found.files, debug_dir)
    /\ pdf_idx' = pdf_idx + 1
    /\ UNCHANGED outsidePages
    /\ UNCHANGED <<use_opencv, images, pdf_pc, pdf_result>>

(* Lines 199-211: all_panels, to which nothing was added, is returned *)
PdfReturn ==
    /\ pdf_pc = "loop"
    /\ pdf_idx > Len(images)
    /\ pdf_result' = EmptyList
    /\ pdf_pc' = "done"
    /\ UNCHANGED outsidePages
    /\ UNCHANGED <<debug_dir, use_opencv, images, pdf_idx, detected>>

NextPages == PdfStart \/ PdfOpenCVPage \/ PdfOpenCVRaises \/ PdfGeminiPage \/ PdfReturn

(* one call of extract_from_pdf_page_images on a list of page images *)
SpecPages == InitPages /\ [][NextPages]_vars

-----------------------------------------------------------------------------
(* ExcelWriter of src/excel_writer.py.  The sheet is the sequence of its   *)
(* rows down to the last row that holds a cell; a row is the sequence of   *)
(* the values of its nine cells, a row no cell was made in is <<>>.        *)

NoCell == NoValue            \* a cell that was made and given no value
TextCell(str) == [type |-> "text", val |-> str]
IntCell(str) == [type |-> "int", val |-> str]
EmptyRow == <<>>

(* the strings int() takes *)
IntTexts == {"0", "1", "2", "7", "20", "50", "60", "100", "120", "225"}

(* Lines 167-170 and 173-176: int(v) if v else "", the value itself where  *)
(* int raises ValueError                                                   *)
IntOrText(text) ==
    IF text = "" THEN TextCell("")
    ELSE IF text \in IntTexts THEN IntCell(text) ELSE TextCell(text)

(* the value a cell takes from a value of the panel: None leaves the cell   *)
(* without a value, a number stays a number                                *)
CellOf(v) ==
    CASE v.type = "string" -> TextCell(Content(v.val))
      [] v.type = "number" -> IntCell(v.val)
      [] v.type = "null" -> NoCell

(* Lines 171-176: the poles cell *)
PolesCell(v) ==
    IF ~Truthy(v) THEN TextCell("")
    ELSE IF v.type = "string" THEN IntOrText(Content(v.val)) ELSE CellOf(v)

(* Lines 111-125 *)
SheetHeaderRow(description) ==
    <<NoCell, NoCell, TextCell("1"), TextCell(description), NoCell, NoCell, NoCell, NoCell,
      NoCell>>

(* Lines 128-143: circuit_headers, the column names of the combined CSV *)
SheetColumnsRow == [c \in DOMAIN CombinedColumns |-> TextCell(CombinedColumns[c])]

(* Lines 159-178 *)
SheetCircuitRow(circuit, panel_name) ==
    <<TextCell(""), panel_name, TextCell(""), CellOf(Field(circuit, "load_description")),
      IntCell("1"), IntOrText(clean_ocp_size(Field(circuit, "ocp_size"))),
      PolesCell(Field(circuit, "poles")), CellOf(Field(circuit, "feeder")),
      CellOf(Field(circuit, "circuit_number"))>>

(* Lines 150-166: the cells of the row of a circuit whose OCP size makes   *)
(* clean_ocp_size raise                                                    *)
SheetBrokenRow(circuit, panel_name) ==
    <<TextCell(""), panel_name, TextCell(""), CellOf(Field(circuit, "load_description")),
      IntCell("1"), NoCell, NoCell, NoCell, NoCell>>

(* Lines 182-193 *)
SheetNoCircuitsRow(panel_name) ==
    <<TextCell(""), panel_name, TextCell(""), TextCell("NO CIRCUITS FOUND"), NoCell, NoCell,
      NoCell, NoCell, NoCell>>

(* Lines 70-207, write_panel: the rows it makes from current_row on, how   *)
(* far current_row moves (lines 125, 144, 179 or 194, 197 and 207), and    *)
(* whether it raised                                                       *)
SheetRows(panel) ==
    IF panel.type # "object" \/ HeaderOf(panel).type # "object"
       \/ DescriptionRaises(HeaderOf(panel))
    THEN [rows |-> <<>>, advance |-> 0, raised |-> TRUE]
    ELSE LET panel_name == CellOf(Field(HeaderOf(panel), "panel_name"))
             top == <<SheetHeaderRow(Description(HeaderOf(panel), "")), SheetColumnsRow>>
             circuits == CircuitsOf(panel)
         IN  IF ~Truthy(circuits)
             THEN [rows |-> Append(top, SheetNoCircuitsRow(panel_name)),
                   advance |-> 1 + 1 + 1 + 2 + 2, raised |-> FALSE]
             ELSE IF circuits.type # "array"
             THEN [rows |-> top, advance |-> 1 + 1, raised |-> TRUE]
             ELSE LET good == GoodPrefix(circuits.val)
                      rows == [k \in DOMAIN good |-> SheetCircuitRow(good[k], panel_name)]
                  IN  IF Len(good) = Len(circuits.val)
                      THEN [rows |-> top \o rows, advance |-> 1 + 1 + Len(good) + 2 + 2,
                            raised |-> FALSE]
                      ELSE [rows |-> top \o rows \o
                                     (IF circuits.val[Len(good) + 1].type = "object"
                                      THEN <<SheetBrokenRow(circuits.val[Len(good) + 1],
                                                            panel_name)>>
                                      ELSE <<>>),
                            advance |-> 1 + 1 + Len(good), raised |-> TRUE]

(* the sheet with rows made from row first on *)
Padded(rows, first) ==
    rows \o [k \in 1..(first - 1 - Len(rows)) |-> EmptyRow]

(* two more panels for the sheet: two circuits, and no key at all *)
PanelTwoCircuits ==
    <<"{">> \o Member("panel_header", <<"{">> \o Member("panel_name", Str("LP 2")) \o <<"}">>)
    \o <<",">> \o Member("circuits",
                   <<"[", "{">> \o Member("load_description", Str("Lighting")) \o <<",">>
                   \o Member("ocp_size", Str("20A")) \o <<"}", ",", "{">>
                   \o Member("load_description", Str("Pump")) \o <<",">>
                   \o Member("ocp_size", Str("12.5A")) \o <<",">>
                   \o Member("poles", Str("1")) \o <<"}", "]">>)
    \o <<"}">>

PanelEmpty == <<"{", "}">>

SheetPanels == WriterPanels \cup {Loads(PanelTwoCircuits).val, Loads(PanelEmpty).val}

InitExcel ==
    /\ DetectorIdle
    /\ image = BigImage
    /\ page_num = 1
    /\ debug_dir = <<>>
    /\ ExtractorIdle
    /\ WritersIdle
    /\ BatchIdle
    /\ PagesIdle
    /\ ExcelIdle
    /\ RunIdle

outsideExcel ==
    <<detectorVars, debug_dir, extractorVars, writerVars, batchVars, pagesVars, runVars>>

(* Lines 59-207: write_panel returns *)
ExcelWritePanel ==
    /\ xl_pc = "ready"
    /\ Len(xl_written) < MaxSheetPanels
    /\ \E panel \in SheetPanels :
          /\ ~SheetRows(panel).raised
          /\ sheet' = Padded(sheet, current_row) \o SheetRows(panel).rows
          /\ current_row' = current_row + SheetRows(panel).advance
          /\ xl_written' = Append(xl_written, [panel |-> panel, first |-> current_row])
    /\ UNCHANGED outsideExcel
    /\ UNCHANGED xl_pc

(* Lines 59-207: write_panel raises, with the cells made so far *)
ExcelWritePanelRaises ==
    /\ xl_pc = "ready"
    /\ Len(xl_written) < MaxSheetPanels
    /\ \E panel \in SheetPanels :
          /\ SheetRows(panel).raised
          /\ sheet' = IF SheetRows(panel).rows = <<>> THEN sheet
                      ELSE Padded(sheet, current_row) \o SheetRows(panel).rows
          /\ current_row' = current_row + SheetRows(panel).advance
    /\ xl_pc' = "raised"
    /\ UNCHANGED outsideExcel
    /\ UNCHANGED xl_written

NextExcel == ExcelWritePanel \/ ExcelWritePanelRaises

(* one ExcelWriter and the panels written to it *)
SpecExcel == InitExcel /\ [][NextExcel]_vars

-----------------------------------------------------------------------------
(* One run of the program after the other: main() of src/main.py and the   *)
(* page of src/app.py.  Only the dated output folder is kept: whether it   *)
(* exists and the entries under it.                                        *)

(* the folders of the two programs: main.py lines 178 and 232, app.py      *)
(* lines 56 and 130                                                        *)
ImagesFolder(prog) == IF prog = "main" THEN "Panel Schedule Images" ELSE "Panel_Schedule_Images"
DataFolder(prog) == IF prog = "main" THEN "Extracted Data" ELSE "Extracted_Data"

(* results an earlier run of a working extractor left in the folder *)
OldResults == {"Extracted Data", "Extracted Data/panel_schedules.xlsx"}

(* create_output_folder, main.py lines 17-41 and app.py lines 38-48: the   *)
(* folder is removed with all it holds where it exists, and made anew      *)
create_output_folder(exists, files) == [exists |-> TRUE, files |-> {}]

(* extract_panel_schedules(pdf_paths, output_folder, cleanup_previous) is  *)
(* not part of the sources: it is taken to write the n images it found     *)
(* into the folder it was given and to name that folder as                 *)
(* panel_schedule_folder                                                   *)
extract_panel_schedules(output_folder, n) ==
    {output_folder \o "/" \o NameAt(k) : k \in 1..n}

InitRun ==
    /\ DetectorIdle
    /\ image = BigImage
    /\ page_num = 1
    /\ debug_dir = <<>>
    /\ ExtractorIdle
    /\ WritersIdle
    /\ BatchIdle
    /\ PagesIdle
    /\ ExcelIdle
    /\ program = "main"
    /\ run_pc = "idle"
    /\ choice = "images"
    /\ out_exists \in BOOLEAN
    /\ out_files \in (IF out_exists THEN {{}, OldResults} ELSE {{}})
    /\ out_before = [exists |-> out_exists, files |-> out_files]
    /\ pdf_wrote = {}
    /\ image_count = 0
    /\ runs = 0

outsideRun ==
    <<detectorVars, debug_dir, extractorVars, writerVars, batchVars, pagesVars, excelVars>>

Ended == {"cancelled", "early", "failed", "done"}

(* the program is started: main.py line 298 get_user_choice, app.py lines  *)
(* 197-201 and 246 the input method and the button                         *)
RunStart ==
    /\ run_pc \in {"idle"} \cup Ended
    /\ runs < MaxRuns
    /\ runs' = runs + 1
    /\ program' \in {"main", "app"}
    /\ choice' \in {"pdf", "images"}
    /\ run_pc' = "start"
    /\ out_before' = [exists |-> out_exists, files |-> out_files]
    /\ pdf_wrote' = {}
    /\ image_count' = 0
    /\ UNCHANGED <<out_exists, out_files>>
    /\ UNCHANGED outsideRun

(* main.py lines 301-304: no output location chosen *)
MainNoLocation ==
    /\ program = "main"
    /\ run_pc = "start"
    /\ run_pc' = "cancelled"
    /\ UNCHANGED <<program, choice, out_exists, out_files, out_before, pdf_wrote,
                   image_count, runs>>
    /\ UNCHANGED outsideRun

(* main.py lines 301-310: the location is chosen and the dated folder made *)
MainCreateFolder ==
    /\ program = "main"
    /\ run_pc = "start"
    /\ out_exists' = create_output_folder(out_exists, out_files).exists
    /\ out_files' = create_output_folder(out_exists, out_files).files
    /\ run_pc' = "folder"
    /\ UNCHANGED <<program, choice, out_before, pdf_wrote, image_count, runs>>
    /\ UNCHANGED outsideRun

(* main.py lines 323-328: no image folder chosen *)
MainNoImageFolder ==
    /\ program = "main"
    /\ run_pc = "folder"
    /\ choice = "images"
    /\ run_pc' = "early"
    /\ UNCHANGED <<program, choice, out_exists, out_files, out_before, pdf_wrote,
                   image_count, runs>>
    /\ UNCHANGED outsideRun

(* main.py lines 323-325: an image folder with some number of images *)
MainImageFolder ==
    /\ program = "main"
    /\ run_pc = "folder"
    /\ choice = "images"
    /\ image_count' \in 0..MaxImages
    /\ run_pc' = "images"
    /\ UNCHANGED <<program, choice, out_exists, out_files, out_before, pdf_wrote, runs>>
    /\ UNCHANGED outsideRun

(* main.py lines 314-318 with lines 172-175: no PDF file chosen *)
MainNoPdfFiles ==
    /\ program = "main"
    /\ run_pc = "folder"
    /\ choice = "pdf"
    /\ run_pc' = "early"
    /\ UNCHANGED <<program, choice, out_exists, out_files, out_before, pdf_wrote,
                   image_count, runs>>
    /\ UNCHANGED outsideRun

(* main.py lines 314-318 with lines 177-201: the extraction raises, or     *)
(* reports no success or no panel schedule, with n images written by then  *)
MainExtractFails ==
    /\ program = "main"
    /\ run_pc = "folder"
    /\ choice = "pdf"
    /\ \E n \in 0..MaxImages :
          LET made == {ImagesFolder(program)}
                      \cup extract_panel_schedules(ImagesFolder(program), n)
          IN  /\ out_files' = out_files \cup made
              /\ pdf_wrote' = made
    /\ run_pc' = "early"
    /\ UNCHANGED <<program, choice, out_exists, out_before, image_count, runs>>
    /\ UNCHANGED outsideRun

(* main.py lines 314-320 with lines 177-192: the extraction found n images *)
MainExtract ==
    /\ program = "main"
    /\ run_pc = "folder"
    /\ choice = "pdf"
    /\ \E n \in 1..MaxImages :
          LET made == {ImagesFolder(program)}
                      \cup extract_panel_schedules(ImagesFolder(program), n)
          IN  /\ out_files' = out_files \cup made
              /\ pdf_wrote' = made
              /\ image_count' = n
    /\ run_pc' = "images"
    /\ UNCHANGED <<program, choice, out_exists, out_before, runs>>
    /\ UNCHANGED outsideRun

(* main.py lines 331-333, process_images of lines 204-292: with no image   *)
(* it returns at once; with images it makes the data folder, and every     *)
(* image ends in the except branch of lines 276-280 (line 257 passes two   *)
(* arguments to a method of one), so no file is written under it           *)
MainProcessImages ==
    /\ program = "main"
    /\ run_pc = "images"
    /\ out_files' = IF image_count = 0 THEN out_files ELSE out_files \cup {DataFolder(program)}
    /\ run_pc' = "done"
    /\ UNCHANGED <<program, choice, out_exists, out_before, pdf_wrote, image_count, runs>>
    /\ UNCHANGED outsideRun

(* app.py lines 252-254 with process_pdfs of lines 125-171: the folder is  *)
(* made anew, the images folder made, and the extraction found n images    *)
AppProcessPdfs ==
    /\ program = "app"
    /\ run_pc = "start"
    /\ choice = "pdf"
    /\ out_exists' = create_output_folder(out_exists, out_files).exists
    /\ \E n \in 1..MaxImages :
          LET made == {ImagesFolder(program)}
                      \cup extract_panel_schedules(ImagesFolder(program), n)
          IN  /\ out_files' = create_output_folder(out_exists, out_files).files \cup made
              /\ pdf_wrote' = made
              /\ image_count' = n
    /\ run_pc' = "images"
    /\ UNCHANGED <<program, choice, out_before, runs>>
    /\ UNCHANGED outsideRun

(* app.py lines 252-267 with process_pdfs of lines 125-177: the extraction *)
(* raises, or reports no success or no panel schedule; the run has no      *)
(* result                                                                  *)
AppProcessPdfsFails ==
    /\ program = "app"
    /\ run_pc = "start"
    /\ choice = "pdf"
    /\ out_exists' = create_output_folder(out_exists, out_files).exists
    /\ \E n \in 0..MaxImages :
          LET made == {ImagesFolder(program)}
                      \cup extract_panel_schedules(ImagesFolder(program), n)
          IN  /\ out_files' = create_output_folder(out_exists, out_files).files \cup made
              /\ pdf_wrote' = made
    /\ run_pc' = "failed"
    /\ UNCHANGED <<program, choice, out_before, image_count, runs>>
    /\ UNCHANGED outsideRun

(* app.py lines 268-270: the uploaded images go to process_images          *)
AppImages ==
    /\ program = "app"
    /\ run_pc = "start"
    /\ choice = "images"
    /\ image_count' \in 1..MaxImages
    /\ run_pc' = "images"
    /\ UNCHANGED <<program, choice, out_exists, out_files, out_before, pdf_wrote, runs>>
    /\ UNCHANGED outsideRun

(* app.py lines 256-265 and 270, process_images of lines 51-122: the       *)
(* folder is made anew, the data folder made, and every image ends in the  *)
(* except branch of lines 102-106 (line 86 passes two arguments to a       *)
(* method of one), so no file is written under it                          *)
AppProcessImages ==
    /\ program = "app"
    /\ run_pc = "images"
    /\ out_exists' = create_output_folder(out_exists, out_files).exists
    /\ out_files' = create_output_folder(out_exists, out_files).files
                    \cup {DataFolder(program)}
    /\ run_pc' = "done"
    /\ UNCHANGED <<program, choice, out_before, pdf_wrote, image_count, runs>>
    /\ UNCHANGED outsideRun

NextRun ==
    \/ RunStart
    \/ MainNoLocation
    \/ MainCreateFolder
    \/ MainNoImageFolder
    \/ MainImageFolder
    \/ MainNoPdfFiles
    \/ MainExtractFails
    \/ MainExtract
    \/ MainProcessImages
    \/ AppProcessPdfs
    \/ AppProcessPdfsFails
    \/ AppImages
    \/ AppProcessImages

(* the program run up to MaxRuns times on one output location *)
SpecRun == InitRun /\ [][NextRun]_vars

-----------------------------------------------------------------------------
(* Properties *)

Range(f) == {f[i] : i \in DOMAIN f}


Contradictory(c) ==
    c.min_width_percent >= c.max_width_percent \/ c.min_height_percent >= c.max_height_percent

PassesFilter(b) == Accepts(b, min_width, min_height, max_width, max_height)

(* the filter as the specification words it: strict, on the exact bounds *)
(* image dimension x percent / 100                                      *)
ExactAccept(b) ==
    /\ b[3] * 100 > image[1] * cfg.min_width_percent
    /\ b[3] * 100 < image[1] * cfg.max_width_percent
    /\ b[4] * 100 > image[2] * cfg.min_height_percent
    /\ b[4] * 100 < image[2] * cfg.max_height_percent

InsideImage(r) ==
    0 <= r[1] /\ 0 <= r[2] /\ r[1] + r[3] <= image[1] /\ r[2] + r[4] <= image[2]

(* C1: with padding >= 0, the padded rectangle of every accepted box lies  *)
(* inside the image: 0 <= x', 0 <= y', x' + w' <= W, y' + h' <= H.         *)
C1_PaddedRectInsideImage ==
    cfg.padding >= 0 => \A k \in DOMAIN panels : InsideImage(panels[k].rect)

(* a region cut at the left and at the bottom edge of the page *)
C1_Witness ==
    /\ pc = "done" /\ cfg.padding > 0
    /\ \E k \in DOMAIN panels :
           panels[k].rect[1] = 0 /\ panels[k].rect[2] + panels[k].rect[4] = image[2]

(* C2: under every configuration, the padded width and height of every     *)
(* region produced are strictly positive.                                  *)
C2_PaddedSizePositive ==
    \A k \in DOMAIN panels : panels[k].rect[3] > 0 /\ panels[k].rect[4] > 0

(* C3: a box is accepted if and only if min_width < w < max_width and      *)
(* min_height < h < max_height, strictly, on the bounds dimension x        *)
(* percent / 100: after the loop has passed idx - 1 boxes, the panels are  *)
(* as many as the boxes among them that satisfy the exact strict filter.   *)
C3_StrictExactFilter ==
    pc \in {"loop", "done"} =>
        Len(panels) = Cardinality({i \in 1..(idx - 1) : ExactAccept(bounding_boxes[i])})

(* C4: with min_width_percent >= max_width_percent or min_height_percent   *)
(* >= max_height_percent no box is accepted: the list is empty throughout  *)
(* the call, nothing is raised and every call returns the empty list.      *)
C4_ContradictoryBoundsEmpty ==
    Contradictory(cfg) =>
        /\ panels = <<>>
        /\ pc # "raised"
        /\ \A i \in DOMAIN returned : returned[i].panels = <<>>

(* contradictory on the width only, on a page with the 98% wide box *)
C4_Witness ==
    /\ pc = "done"
    /\ cfg.min_width_percent >= cfg.max_width_percent
    /\ cfg.min_height_percent < cfg.max_height_percent
    /\ BoxWide \in Range(contours) /\ BoxR \in Range(contours)
    /\ Last(returned).panels = <<>>

RowOf(b) == b[2] \div 100

(* C5: bounding_boxes is the contour list ordered by (floor(y / 100), x):  *)
(* a box of a smaller row bucket comes first whatever its x, within a      *)
(* bucket the box of smaller x comes first; A = (10,10,50,50) comes before *)
(* B = (200,15,50,50) and both before C = (5,150,50,50).                   *)
C5_SortedByRowBucketThenX ==
    pc # "idle" =>
        /\ Len(bounding_boxes) = Len(contours)
        /\ \A b \in Range(contours) :
               Cardinality({i \in DOMAIN contours : contours[i] = b})
                   = Cardinality({i \in DOMAIN bounding_boxes : bounding_boxes[i] = b})
        /\ \A i, j \in DOMAIN bounding_boxes :
               /\ RowOf(bounding_boxes[i]) < RowOf(bounding_boxes[j]) => i < j
               /\ (RowOf(bounding_boxes[i]) = RowOf(bounding_boxes[j])
                      /\ bounding_boxes[i][1] < bounding_boxes[j][1]) => i < j
               /\ (bounding_boxes[i] = <<10, 10, 50, 50>>
                      /\ bounding_boxes[j] = <<200, 15, 50, 50>>) => i < j
               /\ (bounding_boxes[i] \in {<<10, 10, 50, 50>>, <<200, 15, 50, 50>>}
                      /\ bounding_boxes[j] = <<5, 150, 50, 50>>) => i < j

C5_Witness ==
    /\ pc = "done"
    /\ contours = <<BoxC, BoxB, BoxA>>
    /\ bounding_boxes = <<BoxA, BoxB, BoxC>>

(* C6: the returned list is the subsequence of the sorted boxes that pass  *)
(* the filter, in the same order, one entry and one debug file per         *)
(* accepted box; when no box passes, the list is empty, nothing is raised  *)
(* and no debug file is written.                                           *)
C6_ReturnedIsAcceptedSubsequence ==
    LET accepted == SelectSeq(bounding_boxes, PassesFilter)
    IN  /\ pc = "done" =>
               /\ Len(panels) = Len(accepted)
               /\ \A k \in DOMAIN panels :
                      panels[k].rect = PadRect(accepted[k], image, cfg.padding)
               /\ Len(saved) = Len(accepted)
               /\ Last(returned).panels = panels
        /\ (pc # "idle" /\ accepted = <<>>) =>
               pc # "raised" /\ panels = <<>> /\ saved = <<>>

(* a rejected box between two accepted ones *)
C6_Witness ==
    /\ pc = "done"
    /\ Len(bounding_boxes) = 3
    /\ PassesFilter(bounding_boxes[1])
    /\ ~PassesFilter(bounding_boxes[2])
    /\ PassesFilter(bounding_boxes[3])
    /\ Len(Last(returned).panels) = 2

NotClamped(b) ==
    /\ b[1] - cfg.padding >= 0
    /\ b[2] - cfg.padding >= 0
    /\ b[1] + b[3] + cfg.padding <= image[1]
    /\ b[2] + b[4] + cfg.padding <= image[2]

(* C7: when a box is accepted with padding >= 0 and its padded rectangle   *)
(* is not cut at a page edge, the padded size is not smaller than the      *)
(* box: w' >= w and h' >= h.                                               *)
C7_PaddingNeverShrinks ==
    [][(InLoop /\ Len(panels') = Len(panels) + 1
            /\ cfg.padding >= 0 /\ NotClamped(CurrentBox))
        => (Last(panels').rect[3] >= CurrentBox[3] /\ Last(panels').rect[4] >= CurrentBox[4])]_vars

C7_Witness ==
    /\ pc = "done" /\ cfg.padding = 20
    /\ bounding_boxes = <<BoxR>>
    /\ NotClamped(BoxR)
    /\ Len(panels) = 1 /\ panels[1].rect[3] = 340 /\ panels[1].rect[4] = 340

(* C8: a 1000 x 1000 page whose only bounding box is (100, 100, 300, 300), *)
(* with the default options, yields exactly one region, with the padded    *)
(* rectangle (80, 80, 340, 340).                                           *)
C8_ScenarioOneRegion ==
    (pc = "done" /\ image = <<1000, 1000>> /\ contours = << <<100, 100, 300, 300>> >>
        /\ cfg = DefaultConfig)
    => /\ Len(Last(returned).panels) = 1
       /\ Last(returned).panels[1].rect = <<80, 80, 340, 340>>

C8_Witness ==
    /\ pc = "done" /\ image = <<1000, 1000>> /\ contours = << <<100, 100, 300, 300>> >>
    /\ cfg = DefaultConfig
    /\ Len(returned) = 1 /\ Len(returned[1].panels) = 1

(* C9: two calls on the same image with the same configuration (and the    *)
(* same page_num) return the same list: as many regions, with the same     *)
(* names and the same crop rectangles, in the same order.                  *)
C9_SameInputSameOutput ==
    \A i, j \in DOMAIN returned :
        returned[i].page_num = returned[j].page_num => returned[i].panels = returned[j].panels

C9_Witness ==
    /\ Len(returned) = 2
    /\ returned[1].page_num = returned[2].page_num
    /\ Len(returned[2].panels) >= 2

TwoDigits(n) ==
    LET digit == <<"0", "1", "2", "3", "4", "5", "6", "7", "8", "9">>
    IN  digit[(n \div 10) + 1] \o digit[(n % 10) + 1]

(* C10: the k-th accepted region is named Panel_<k, two digits> and its    *)
(* debug file page_<page_num, two digits>_opencv_panel_<k, two             *)
(* digits>.png: the names run 01, 02, ... with no gap and no repeat, and   *)
(* rejected boxes take no number.                                          *)
C10_SequentialNames ==
    /\ Len(saved) = Len(panels)
    /\ \A k \in DOMAIN panels :
           /\ panels[k].name = "Panel_" \o TwoDigits(k)
           /\ saved[k] = "page_" \o TwoDigits(page_num) \o "_opencv_panel_"
                             \o TwoDigits(k) \o ".png"
           /\ saved[k] \in DOMAIN debug_dir

(* page 12, the second of three boxes rejected *)
C10_Witness ==
    /\ pc = "done" /\ page_num = 12
    /\ Len(bounding_boxes) = 3 /\ ~PassesFilter(bounding_boxes[2])
    /\ Len(panels) = 2
    /\ panels[2].name = "Panel_02"
    /\ saved = <<"page_12_opencv_panel_01.png", "page_12_opencv_panel_02.png">>

(* C11: page_num has no effect on what the detector returns: two calls on  *)
(* the same image and options that differ in page_num return the same      *)
(* names and the same crop rectangles in the same order; only the names of *)
(* the debug files differ, none being shared between the two pages.        *)
C11_PageNumNoEffect ==
    \A i, j \in DOMAIN returned :
        returned[i].page_num # returned[j].page_num =>
            /\ returned[i].panels = returned[j].panels
            /\ Len(returned[i].files) = Len(returned[j].files)
            /\ Range(returned[i].files) \cap Range(returned[j].files) = {}

(* pages 1 and 12, two regions each *)
C11_Witness ==
    /\ Len(returned) = 2
    /\ returned[1].page_num = 1 /\ returned[2].page_num = 12
    /\ Len(returned[1].panels) = 2
    /\ returned[1].files[2] = "page_01_opencv_panel_02.png"
    /\ returned[2].files[2] = "page_12_opencv_panel_02.png"

(* C18: two calls running at the same time on different pages (distinct    *)
(* page_num) do not interfere: each returns the list it returns when run   *)
(* alone, the two never write the same debug file, and every debug file    *)
(* holds the crop its own call stored in it.                               *)
C18_ConcurrentCallsIndependent ==
    /\ pc = "done" => panels = DetectAlone(image, contours, cfg)
    /\ other.pc = "done" => other.panels = DetectAlone(other.image, other.contours, cfg)
    /\ other.pc # "none" =>
           /\ Range(saved) \cap Range(other.saved) = {}
           /\ \A k \in DOMAIN saved : debug_dir[saved[k]] = panels[k].crop
           /\ \A k \in DOMAIN other.saved : debug_dir[other.saved[k]] = other.panels[k].crop

(* both calls are inside their loops, each with one file stored and a box *)
(* still to come                                                          *)
C18_Witness ==
    /\ pc = "loop" /\ other.pc = "loop"
    /\ page_num # other.page_num
    /\ Len(saved) = 1 /\ idx <= Len(bounding_boxes)
    /\ Len(other.saved) = 1 /\ other.idx <= Len(other.bounding_boxes)
    /\ Cardinality(DOMAIN debug_dir) = 2

(* the box the k-th region was cut from *)
BoxOfPanel(k) == SelectSeq(bounding_boxes, PassesFilter)[k]

(* how far rectangle r reaches beyond box b on the left, top, right, bottom *)
Beyond(r, b) ==
    <<b[1] - r[1], b[2] - r[2], (r[1] + r[3]) - (b[1] + b[3]), (r[2] + r[4]) - (b[2] + b[4])>>

(* the room between box b and the page border on the same four sides *)
Room(b) == <<b[1], b[2], image[1] - (b[1] + b[3]), image[2] - (b[2] + b[4])>>

(* C19: with padding p >= 0, the crop rectangle of every accepted box      *)
(* reaches exactly p pixels beyond the box on each of the four sides, or   *)
(* up to the page border where that is nearer; on no side more than p.     *)
C19_PaddingExactOnEachSide ==
    cfg.padding >= 0 =>
        \A k \in DOMAIN panels :
            \A side \in 1..4 :
                Beyond(panels[k].rect, BoxOfPanel(k))[side]
                    = Min(cfg.padding, Room(BoxOfPanel(k))[side])

(* C20: of two bounding boxes whose y-coordinates differ by a few pixels   *)
(* (here at most 5, far less than the 100-pixel bucket height), the one    *)
(* with the smaller x comes first in the order of processing.              *)
C20_NearbyRowsLeftToRight ==
    pc # "idle" =>
        \A i, j \in DOMAIN bounding_boxes :
            (/\ bounding_boxes[i][2] - bounding_boxes[j][2] \in -5..5
             /\ bounding_boxes[i][1] < bounding_boxes[j][1]) => i < j

(* the response has a text, and json.loads raises on what it is handed *)
Undecodable == response.kind = "text" /\ response.text # <<>> /\ ~Data.ok

(* C14: when the response for an image cannot be decoded as JSON,          *)
(* extract_from_image reports it and returns the empty list; it raises     *)
(* nothing and makes no second request to the model.                       *)
C14_DecodeFailureGivesNoPanels ==
    (method = "extract" /\ Undecodable) =>
        /\ requests <= 1
        /\ ex_pc = "returned" =>
               /\ result = EmptyList
               /\ "Error parsing JSON response" \in Range(reported)
               /\ Len(decoded) = 1

(* a document cut off behind a comma *)
C14_Witness ==
    /\ method = "extract" /\ ex_pc = "returned"
    /\ doc = CutOff /\ wrap = "json"
    /\ Undecodable
    /\ result = EmptyList /\ requests = 1

(* C15: a response in the format the extraction prompt asks for (the label *)
(* PANEL_HEADER: and a JSON object, then on a new line the label CIRCUITS: *)
(* and a JSON array) is turned by extract_from_image into one panel record *)
(* carrying that header and those circuits.                                *)
C15_PromptFormatGivesOnePanel ==
    (method = "extract" /\ ex_pc = "returned" /\ doc = PromptAnswer) =>
        /\ result.type = "array"
        /\ Len(result.val) = 1
        /\ Get(result.val[1], Quoted("panel_header"), NoValue) = Loads(PromptHeader).val
        /\ Get(result.val[1], Quoted("circuits"), NoValue) = Loads(PromptCircuits).val

Fenced == wrap \in {"json", "plain", "json padded", "plain padded"}

(* C16 as claimed: when the response is a JSON document inside a fence of  *)
(* three back-quotes (with or without "json", with or without whitespace   *)
(* around), the text handed to the JSON decoder by extract_from_image and  *)
(* by detect_panels_in_image is the document itself.                       *)
C16_FencedDocumentHandedAsIs ==
    (ex_pc = "returned" /\ Fenced /\ doc \in Docs) => decoded = <<doc>>

(* C16 as amended: detect_panels_in_image hands over the document itself;  *)
(* so does extract_from_image when the document ends with } or ], and it   *)
(* hands over the document followed by ]}} when it ends otherwise.         *)
C16_FencedDocumentHandedOrClosed ==
    (ex_pc = "returned" /\ Fenced /\ doc \in Docs) =>
        IF method = "extract" /\ Last(doc) \notin {"}", "]"}
        THEN decoded = <<doc \o <<"]", "}", "}">>>>
        ELSE decoded = <<doc>>

(* the json fence with whitespace around it and none inside *)
C16_Witness ==
    /\ ex_pc = "returned" /\ wrap = "json padded" /\ doc = DocOne
    /\ decoded = <<DocOne>>
    /\ result.type = "array" /\ Len(result.val) = 1

IsPrefix(before, after) ==
    Len(before) <= Len(after) /\ SubSeq(after, 1, Len(before)) = before

(* C17: the CSV writers are append-only: for every call of a write method, *)
(* on any writer instance and after any earlier writes to the same path by *)
(* this or another instance, the content of the file before the call is a  *)
(* prefix of its content after the call.                                   *)
C17_WritersAppendOnly ==
    [][\A path \in Paths :
          fs[path].exists => /\ fs'[path].exists
                             /\ IsPrefix(fs[path].rows, fs'[path].rows)]_vars

(* the names of the first n input images, in list order *)
NamesUpTo(n) == [k \in 1..n |-> NameAt(k)]

(* C12: in process_images an exception raised at one input image is caught *)
(* at that image and every later image is still processed, in list order:  *)
(* the images whose loop body was entered are always the first images of   *)
(* the list, in order, each caught exception belongs to one of them, and   *)
(* when the loop is over they are all the images of the list.              *)
C12_BadImageNeverAbortsBatch ==
    /\ visited = NamesUpTo(Len(visited))
    /\ Len(visited) <= Len(image_files)
    /\ \A e \in DOMAIN errors : \E k \in DOMAIN visited : visited[k] = errors[e].image
    /\ pi_pc = "done" /\ writers # <<>> => visited = NamesUpTo(Len(image_files))

C12_Witness ==
    /\ pi_pc = "done"
    /\ Len(image_files) = 3
    /\ ~image_files[1].opens
    /\ image_files[2].opens
    /\ visited = NamesUpTo(3)
    /\ Len(errors) = 3
    /\ errors[1].at = "open" /\ errors[2].at = "extract"

Contains(rows, part) ==
    \E i \in 0..(Len(rows) - Len(part)) : SubSeq(rows, i + 1, i + Len(part)) = part

(* the rows of a panel are in the three CSV files *)
InAllThree(panel, image_name) ==
    /\ Contains(fs[PathOf["headers"]].rows, HeaderRows(panel, image_name, FALSE).rows)
    /\ Contains(fs[PathOf["circuits"]].rows, CircuitRows(panel, image_name, FALSE).rows)
    /\ Contains(fs[PathOf["combined"]].rows, CombinedRows(panel, image_name).rows)

(* C13: in process_images, for every input image that opens and for which  *)
(* the response of the model parses to a non-empty list of panels, each of *)
(* those panels is written to the headers CSV, the circuits CSV and the    *)
(* combined CSV before the next image is processed.                        *)
C13_PanelsWrittenBeforeNextImage ==
    \A k \in DOMAIN image_files :
        LET value == Extracted(image_files[k].answer)
        IN  /\ pi_pc \in {"loop", "opened", "done"}
            /\ k < pi_idx
            /\ image_files[k].opens
            /\ value.type = "array" /\ value.val # <<>>
            => \A n \in DOMAIN value.val : InAllThree(value.val[n], NameAt(k))

(* rectangle r contains box b *)
ContainsBox(r, b) ==
    /\ r[1] <= b[1]
    /\ r[2] <= b[2]
    /\ r[1] + r[3] >= b[1] + b[3]
    /\ r[2] + r[4] >= b[2] + b[4]

(* C30: with padding p >= 0 the crop rectangle of every accepted box,      *)
(* cut at a page edge or not, contains the whole bounding box: x' <= x,    *)
(* y' <= y, x' + w' >= x + w and y' + h' >= y + h.                         *)
C30_CropContainsBox ==
    cfg.padding >= 0 =>
        \A k \in DOMAIN panels : ContainsBox(panels[k].rect, BoxOfPanel(k))

C30_Witness ==
    /\ pc = "done"
    /\ cfg.padding = 20
    /\ \E k \in DOMAIN panels :
          /\ ~NotClamped(BoxOfPanel(k))
          /\ panels[k].rect # PadRectNoClamp(BoxOfPanel(k), image, cfg.padding)
          /\ ContainsBox(panels[k].rect, BoxOfPanel(k))


(* C21: saving the debug crops has no effect on the region list the call   *)
(* returns: whether each debug write succeeds or fails, the call ends by   *)
(* returning the list it returns when every write succeeds.                *)
C21_SaveFailureKeepsResult ==
    pc \in {"done", "raised"} =>
        pc = "done" /\ panels = DetectAlone(image, contours, cfg)


(* C24: extract_from_image always returns a list of panel dictionaries,    *)
(* possibly empty, for every response of the model: no response, text that *)
(* does not decode, an array at top level, an object without "panels", an  *)
(* object whose "panels" is null or no list.                               *)
C24_ExtractAlwaysReturnsList ==
    (method = "extract" /\ ex_pc = "returned") =>
        /\ result.type = "array"
        /\ \A k \in DOMAIN result.val : result.val[k].type = "object"


(* C22: in extract_from_pdf_page_images, with either detection method, an  *)
(* exception raised while detecting panels on one page does not abort the  *)
(* batch: the call ends only after every page of the list was processed.   *)
C22_BadPageNeverAbortsBatch ==
    pdf_pc \in {"done", "raised"} => pdf_idx > Len(images)

(* C23: extract_from_pdf_page_images returns the list of all panels found  *)
(* across all pages: every panel detected on any page is in the returned   *)
(* list.                                                                   *)
C23_ReturnsAllDetectedPanels ==
    pdf_pc = "done" =>
        \A k \in DOMAIN detected :
            \A n \in DOMAIN detected[k] : detected[k][n] \in Range(pdf_result.val)


(* a panel record: a dictionary whose header is a dictionary and whose     *)
(* circuits are a list of dictionaries with a string, or nothing, for the  *)
(* OCP size                                                                *)
IsPanelRecord(panel) ==
    /\ panel.type = "object"
    /\ HeaderOf(panel).type = "object"
    /\ CircuitsOf(panel).type = "array"
    /\ BadCircuits(CircuitsOf(panel).val) = {}

(* the calls made on writer i, in call order *)
CallsOn(i) == LET Mine(call) == call.writer = i IN SelectSeq(written, Mine)

(* the data rows of a sequence of calls: one per panel for the headers     *)
(* file, one per circuit of each panel for the circuits file               *)
RECURSIVE DataRows(_, _)
DataRows(made, kind) ==
    IF made = <<>> THEN <<>>
    ELSE (IF kind = "headers"
          THEN << <<made[1].image_name>> \o
                  [k \in 1..Len(HeaderFields) |->
                      Text(Field(HeaderOf(made[1].panel), HeaderFields[k]))] >>
          ELSE [k \in DOMAIN CircuitsOf(made[1].panel).val |->
                   CircuitRow(CircuitsOf(made[1].panel).val[k], made[1].image_name)])
         \o DataRows(Tail(made), kind)

ColumnsOf == [headers |-> HeadersColumns, circuits |-> CircuitsColumns]

CircuitCount(panel) ==
    IF CircuitsOf(panel).type = "array" THEN Len(CircuitsOf(panel).val) ELSE 0

(* the row of the combined CSV the k-th of these panels starts on, the     *)
(* panels before it written by CombinedCSVWriter.write_panel               *)
RECURSIVE CombinedFirstRow(_, _)
CombinedFirstRow(made, k) ==
    IF k = 1 THEN 1
    ELSE CombinedFirstRow(made, k - 1)
         + Len(CombinedRows(made[k - 1].panel, "a.png").rows)

(* C26: ExcelWriter.write_panel lays a panel out like the combined CSV:    *)
(* for a panel with n circuits current_row advances by max(n, 1) + 4 (one  *)
(* header row, one column row, max(n, 1) circuit rows, 2 empty rows), and  *)
(* the k-th panel starts on the same row in the sheet as in the combined   *)
(* CSV.                                                                    *)
C26_SheetLaidOutLikeCombinedCSV ==
    \A k \in DOMAIN xl_written :
        LET after == IF k < Len(xl_written) THEN xl_written[k + 1].first
                     ELSE IF xl_pc = "ready" THEN current_row
                     ELSE xl_written[k].first + SheetRows(xl_written[k].panel).advance
            n == CircuitCount(xl_written[k].panel)
        IN  /\ after - xl_written[k].first = (IF n > 1 THEN n ELSE 1) + 4
            /\ xl_written[k].first = CombinedFirstRow(xl_written, k)


(* C28: in main(), when the run exits early after the output location was  *)
(* chosen (no image folder, no PDF, or a failed PDF extraction), an output *)
(* folder of the same date that existed at that location is left as it     *)
(* was.                                                                    *)
C28_EarlyExitKeepsOldFolder ==
    (program = "main" /\ run_pc = "early" /\ out_before.exists)
        => (out_exists /\ out_files = out_before.files)

(* C29: in one PDF run of the web page, the entries process_pdfs made      *)
(* under the output folder still exist when the process_images call that   *)
(* follows has finished.                                                   *)
C29_PdfImagesSurviveTheRun ==
    (program = "app" /\ choice = "pdf" /\ run_pc = "done") => pdf_wrote \subseteq out_files

====
